---- MODULE Spec2Model ----
(***************************************************************************)
(* A model of the screenshot-extraction pipeline: the result aggregator    *)
(* (DataProcessor), the exporter (ExportUtils) and the command-line action *)
(* (index.ts).  Strings are TLA+ strings; every case conversion, regular   *)
(* expression and path operation is computed character by character.       *)
(***************************************************************************)
EXTENDS Integers, Sequences, FiniteSets, TLC

(***************************************************************************)
(* Bounds of the model.                                                    *)
(***************************************************************************)
\* Longest batch handed to processResults.
MaxBatch == 2

\* The longest list of screenshots handed to processScreenshots on its own.
MaxShots == 2

(***************************************************************************)
(* String primitives of the JavaScript runtime.                            *)
(***************************************************************************)
LowerLetters == "abcdefghijklmnopqrstuvwxyz"
UpperLetters == "ABCDEFGHIJKLMNOPQRSTUVWXYZ"
Digits == "0123456789"

\* s.charAt(i-1): the one-character string at 1-based position i, "" outside.
CharAt(s, i) == IF i >= 1 /\ i <= Len(s) THEN SubSeq(s, i, i) ELSE ""

\* s.slice(i-1): the suffix starting at 1-based position i.
SliceFrom(s, i) == IF i > Len(s) THEN "" ELSE SubSeq(s, i, Len(s))

IndexIn(alphabet, c) ==
  IF \E i \in 1..Len(alphabet) : CharAt(alphabet, i) = c
  THEN CHOOSE i \in 1..Len(alphabet) : CharAt(alphabet, i) = c
  ELSE 0

\* The letters with a case, each with its counterpart in the other case.
UpperMap == [c \in {CharAt(LowerLetters, i) : i \in 1..Len(LowerLetters)} |->
               CharAt(UpperLetters, IndexIn(LowerLetters, c))]

LowerMap == [c \in {CharAt(UpperLetters, i) : i \in 1..Len(UpperLetters)} |->
               CharAt(LowerLetters, IndexIn(UpperLetters, c))]

DigitMap == [c \in {CharAt(Digits, i) : i \in 1..Len(Digits)} |-> IndexIn(Digits, c) - 1]

UpperChar(c) == IF c \in DOMAIN UpperMap THEN UpperMap[c] ELSE c

LowerChar(c) == IF c \in DOMAIN LowerMap THEN LowerMap[c] ELSE c

RECURSIVE ToUpperCase(_)
ToUpperCase(s) ==
  IF Len(s) = 0 THEN "" ELSE UpperChar(CharAt(s, 1)) \o ToUpperCase(SliceFrom(s, 2))

RECURSIVE ToLowerCase(_)
ToLowerCase(s) ==
  IF Len(s) = 0 THEN "" ELSE LowerChar(CharAt(s, 1)) \o ToLowerCase(SliceFrom(s, 2))

IsDigit(c) == c \in DOMAIN DigitMap

\* s.startsWith(p) at 1-based position i.
HasAt(s, i, p) == i + Len(p) - 1 <= Len(s) /\ SubSeq(s, i, i + Len(p) - 1) = p

\* s.includes(p)
Includes(s, p) == \E i \in 1..(Len(s) + 1) : HasAt(s, i, p)

\* The longest run of decimal digits of s starting at 1-based position i.
RECURSIVE DigitRun(_, _)
DigitRun(s, i) ==
  IF IsDigit(CharAt(s, i)) THEN CharAt(s, i) \o DigitRun(s, i + 1) ELSE ""

\* parseInt(d, 10) of a non-empty string of decimal digits.
RECURSIVE ParseInt(_)
ParseInt(d) ==
  IF Len(d) = 0 THEN 0
  ELSE 10 * ParseInt(SubSeq(d, 1, Len(d) - 1)) + DigitMap[CharAt(d, Len(d))]

\* String(n) of a natural number.
RECURSIVE NatToString(_)
NatToString(n) ==
  IF n < 10 THEN CharAt(Digits, n + 1)
  ELSE NatToString(n \div 10) \o CharAt(Digits, (n % 10) + 1)

\* String(n) of an integer.
NumberToString(n) == IF n < 0 THEN "-" \o NatToString(0 - n) ELSE NatToString(n)

\* String(n).padStart(w, "0")
RECURSIVE PadZero(_, _)
PadZero(str, w) == IF Len(str) >= w THEN str ELSE PadZero("0" \o str, w)

(***************************************************************************)
(* schema.ts                                                               *)
(***************************************************************************)
MONDAY == "Monday"
TUESDAY == "Tuesday"
WEDNESDAY == "Wednesday"
THURSDAY == "Thursday"
FRIDAY == "Friday"
SATURDAY == "Saturday"
WEEKLY == "Weekly"

\* Object.values(DayOfWeek), in declaration order.
DayOfWeek == <<MONDAY, TUESDAY, WEDNESDAY, THURSDAY, FRIDAY, SATURDAY, WEEKLY>>

RankingEntry(rank, commanderName, points) ==
  [rank |-> rank, commanderName |-> commanderName, points |-> points]

\* The fields of a ScreenshotFile the pipeline reads after the scan.
ScreenshotFile(fileName, week, day) ==
  [fileName |-> fileName, week |-> week, day |-> day]

ProcessingResult(file, extracted, success) ==
  [file |-> file, extracted |-> extracted, success |-> success]

(***************************************************************************)
(* Array helpers of the runtime.                                           *)
(***************************************************************************)
\* array.sort((a, b) => key(a) - key(b)), keys[i] being the key of s[i].
\* Array.prototype.sort is stable: an element moves behind exactly the elements
\* with a smaller key and the earlier elements with an equal key.
StableSort(s, keys) ==
  LET Before(i) == {j \in 1..Len(s) : keys[j] < keys[i] \/ (keys[j] = keys[i] /\ j < i)}
  IN  [p \in 1..Len(s) |-> s[CHOOSE i \in 1..Len(s) : Cardinality(Before(i)) + 1 = p]]

\* entries.sort((a, b) => a.rank - b.rank)
SortByRank(entries) == StableSort(entries, [i \in 1..Len(entries) |-> entries[i].rank])

\* str.split(sep)[0]: the part of str before the first occurrence of sep.
SplitFirst(str, sep) ==
  IF Includes(str, sep)
  THEN SubSeq(str, 1, (CHOOSE i \in 1..Len(str) :
                         HasAt(str, i, sep) /\ \A j \in 1..(i - 1) : ~HasAt(str, j, sep)) - 1)
  ELSE str

(***************************************************************************)
(* Calendar arithmetic of Date (process time zone UTC).                    *)
(***************************************************************************)
IsLeapYear(y) == (y % 4 = 0 /\ y % 100 # 0) \/ y % 400 = 0

DaysInMonth(y, m) ==
  IF m = 2 THEN (IF IsLeapYear(y) THEN 29 ELSE 28)
  ELSE IF m \in {4, 6, 9, 11} THEN 30 ELSE 31

\* date.setDate(n) on a date of year y, month m: day n of that month, carried
\* into the following months (n past the month's end) or the preceding ones
\* (n below 1).
RECURSIVE SetDate(_, _, _)
SetDate(y, m, n) ==
  IF n > DaysInMonth(y, m)
  THEN (IF m = 12 THEN SetDate(y + 1, 1, n - DaysInMonth(y, m))
                  ELSE SetDate(y, m + 1, n - DaysInMonth(y, m)))
  ELSE IF n < 1
  THEN (IF m = 1 THEN SetDate(y - 1, 12, n + DaysInMonth(y - 1, 12))
                 ELSE SetDate(y, m - 1, n + DaysInMonth(y, m - 1)))
  ELSE [year |-> y, month |-> m, date |-> n]

\* date.toISOString().split('T')[0]
IsoDate(d) ==
  PadZero(NatToString(d.year), 4) \o "-" \o PadZero(NatToString(d.month), 2)
    \o "-" \o PadZero(NatToString(d.date), 2)

(***************************************************************************)
(* DataProcessor                                                           *)
(***************************************************************************)
\* weekDir.match(/week(\d+)/i): the digits captured by the leftmost match, or
\* "" when nothing matches.
WeekRegexDigits(weekDir) ==
  LET lowered == ToLowerCase(weekDir)
      Matches(i) == HasAt(lowered, i, "week") /\ IsDigit(CharAt(weekDir, i + 4))
  IN  IF \E i \in 1..Len(weekDir) : Matches(i)
      THEN DigitRun(weekDir, (CHOOSE i \in 1..Len(weekDir) :
                                Matches(i) /\ \A j \in 1..(i - 1) : ~Matches(j)) + 4)
      ELSE ""

\* A variant of extractWeekNumber whose pattern is matched case-sensitively.
extractWeekNumberCased(weekDir) ==
  LET Matches(i) == HasAt(weekDir, i, "week") /\ IsDigit(CharAt(weekDir, i + 4))
  IN  IF \E i \in 1..Len(weekDir) : Matches(i)
      THEN ParseInt(DigitRun(weekDir, (CHOOSE i \in 1..Len(weekDir) : Matches(i)) + 4))
      ELSE 0

extractWeekNumber(weekDir) ==
  LET digits == WeekRegexDigits(weekDir)
  IN  IF digits # "" THEN ParseInt(digits) ELSE 0

\* Whether the Date computed by calculateWeekStartDate is a valid Date.  A Date
\* holds at most 100,000,000 days either side of 1970-01-01 (2024-01-01 is day
\* 19723); past that it is an Invalid Date, on which toISOString throws a
\* RangeError.
weekStartDateValid(weekDir) ==
  LET day == 19723 + (extractWeekNumber(weekDir) - 1) * 7
  IN  day <= 100000000 /\ day >= -100000000

calculateWeekStartDate(weekDir) ==
  IsoDate(SetDate(2024, 1, 1 + (extractWeekNumber(weekDir) - 1) * 7))

\* day.toLowerCase() of each value of DayOfWeek.
DayOfWeekLower == [i \in 1..Len(DayOfWeek) |-> ToLowerCase(DayOfWeek[i])]

\* A variant of normalizeDayName that passes every name on as it is.
normalizeDayNameRaw(dayName) == dayName

normalizeDayName(dayName) ==
  LET normalized == ToUpperCase(CharAt(dayName, 1)) \o ToLowerCase(SliceFrom(dayName, 2))
      lowered == ToLowerCase(normalized)
      Match(i) == DayOfWeekLower[i] = lowered
  IN  IF \E i \in 1..Len(DayOfWeek) : Match(i)
      THEN DayOfWeek[CHOOSE i \in 1..Len(DayOfWeek) :
                       Match(i) /\ \A j \in 1..(i - 1) : ~Match(j)]
      ELSE normalized

\* dayOrder[day] || 999
dayOrder(day) ==
  IF \E i \in 1..Len(DayOfWeek) : DayOfWeek[i] = day
  THEN CHOOSE i \in 1..Len(DayOfWeek) : DayOfWeek[i] = day
  ELSE 999

\* A variant of sortDailyData whose sort puts the later of two buckets of
\* equal order first.
sortDailyDataUnstable(dailyData) ==
  LET Before(i) == {j \in 1..Len(dailyData) :
                      \/ dayOrder(dailyData[j].day) < dayOrder(dailyData[i].day)
                      \/ dayOrder(dailyData[j].day) = dayOrder(dailyData[i].day) /\ j > i}
  IN  [p \in 1..Len(dailyData) |->
         dailyData[CHOOSE i \in 1..Len(dailyData) : Cardinality(Before(i)) + 1 = p]]

sortDailyData(dailyData) ==
  StableSort(dailyData, [i \in 1..Len(dailyData) |-> dayOrder(dailyData[i].day)])

\* dailyData.find(d => d.day === dayName): its 1-based index, 0 when absent.
FindDay(dailyData, dayName) ==
  IF \E i \in 1..Len(dailyData) : dailyData[i].day = dayName
  THEN CHOOSE i \in 1..Len(dailyData) :
         dailyData[i].day = dayName /\ \A j \in 1..(i - 1) : dailyData[j].day # dayName
  ELSE 0

\* A variant of mergeWeekly that drops the entries whose rank is already held.
mergeWeeklyDedup(weeklyData, extracted) ==
  LET IsNew(e) == \A i \in 1..Len(weeklyData) : weeklyData[i].rank # e.rank
  IN  SortByRank(weeklyData \o SelectSeq(extracted, IsNew))

\* The weekly branch: push the result's entries, then sort by rank.
mergeWeekly(weeklyData, extracted) == SortByRank(weeklyData \o extracted)

\* A variant of newEntries that filters nothing.
newEntriesUnfiltered(entries, extracted) == extracted

\* The entries of a result that the daily branch appends to a bucket: those
\* whose rank the bucket does not hold yet.
newEntries(entries, extracted) ==
  LET existingRanks == {entries[i].rank : i \in 1..Len(entries)}
      IsNew(e) == e.rank \notin existingRanks
  IN  SelectSeq(extracted, IsNew)

\* The daily branch: push the new entries, then sort by rank.
mergeDaily(entries, extracted) ==
  SortByRank(entries \o newEntries(entries, extracted))

\* A variant of addResultToWeekData that creates no bucket for a result
\* without entries.
addResultToWeekDataSkipEmpty(wd, result) ==
  LET dayName == normalizeDayName(result.file.day)
      daily == IF FindDay(wd.dailyData, dayName) = 0
               THEN Append(wd.dailyData, [day |-> dayName, entries |-> <<>>])
               ELSE wd.dailyData
      k == FindDay(daily, dayName)
  IN  IF dayName = WEEKLY
      THEN [wd EXCEPT !.weeklyData = mergeWeekly(wd.weeklyData, result.extracted)]
      ELSE IF result.extracted = <<>> THEN wd
      ELSE [wd EXCEPT !.dailyData =
              [daily EXCEPT ![k].entries = mergeDaily(daily[k].entries, result.extracted)]]

addResultToWeekData(wd, result) ==
  LET dayName == normalizeDayName(result.file.day)
  IN  IF dayName = WEEKLY
      THEN [wd EXCEPT !.weeklyData = mergeWeekly(wd.weeklyData, result.extracted)]
      ELSE LET daily == IF FindDay(wd.dailyData, dayName) = 0
                        THEN Append(wd.dailyData, [day |-> dayName, entries |-> <<>>])
                        ELSE wd.dailyData
               k == FindDay(daily, dayName)
           IN  [wd EXCEPT !.dailyData =
                  [daily EXCEPT ![k].entries = mergeDaily(daily[k].entries, result.extracted)]]

IsSuccess(result) == result.success

\* A variant of successfulOf that keeps the failed results.
successfulOfAll(batch) == batch

\* results.filter(result => result.success)
successfulOf(batch) == SelectSeq(batch, IsSuccess)

EmptyWeek == [weekNumber |-> 0, weekDate |-> "", dailyData |-> <<>>, weeklyData |-> <<>>]

EmptyMetadata == [totalWeeks |-> 0, totalScreenshots |-> 0, extractedAt |-> ""]

NoData == [weeks |-> <<>>, metadata |-> EmptyMetadata]

(***************************************************************************)
(* path (POSIX) as used by ExportUtils.                                    *)
(***************************************************************************)
\* 1-based position of the last "/" of p, 0 when there is none.
LastSlash(p) ==
  IF \E i \in 1..Len(p) : CharAt(p, i) = "/"
  THEN CHOOSE i \in 1..Len(p) :
         CharAt(p, i) = "/" /\ \A j \in (i + 1)..Len(p) : CharAt(p, j) # "/"
  ELSE 0

\* path.dirname(p)
dirname(p) ==
  IF LastSlash(p) = 0 THEN "."
  ELSE IF LastSlash(p) = 1 THEN "/"
  ELSE SubSeq(p, 1, LastSlash(p) - 1)

\* path.basename(p)
basename(p) == SliceFrom(p, LastSlash(p) + 1)

\* path.basename(p, ext)
basenameExt(p, ext) ==
  LET b == basename(p)
  IN  IF Len(b) > Len(ext) /\ HasAt(b, Len(b) - Len(ext) + 1, ext)
      THEN SubSeq(b, 1, Len(b) - Len(ext))
      ELSE b

\* path.join(dir, name) of a normalized directory and a file name.
pathJoin(dir, name) ==
  IF dir = "." THEN name
  ELSE IF dir = "/" THEN "/" \o name
  ELSE dir \o "/" \o name

(***************************************************************************)
(* ExportUtils.  A written file is its path, its format and its content:   *)
(* the tables of a csv file (one) or of a workbook (one per sheet), or the *)
(* document of a json file.  File-system operations are taken to succeed.  *)
(* The bucket labels exported are distinct and valid as sheet names.       *)
(***************************************************************************)
NoDoc == [keys |-> <<>>, weekValue |-> <<>>, metadata |-> EmptyMetadata]

\* entries.map(entry => ({Rank, CommanderName, Points}))
EntryRows(entries) ==
  [i \in 1..Len(entries) |->
     [Rank |-> entries[i].rank,
      CommanderName |-> entries[i].commanderName,
      Points |-> entries[i].points]]

\* The header titles given to createObjectCsvWriter.
CsvHeader == <<"Rank", "Commander Name", "Points">>

\* csvWriter.writeRecords(records) on a new file: the header line, then a line
\* per record.
CsvFile(path, entries) ==
  [path |-> path, format |-> "csv",
   tables |-> <<[name |-> "", header |-> CsvHeader, rows |-> EntryRows(entries)]>>,
   doc |-> NoDoc]

\* A variant of EntrySheet that titles its columns as the flat tables do.
EntrySheetTitled(name, entries) ==
  [name |-> name, header |-> CsvHeader, rows |-> EntryRows(entries)]

\* XLSX.utils.json_to_sheet(rows) appended under a name: the header row holds
\* the keys of the objects, and an empty array gives an empty sheet.
EntrySheet(name, entries) ==
  [name |-> name,
   header |-> IF Len(entries) = 0 THEN <<>> ELSE <<"Rank", "CommanderName", "Points">>,
   rows |-> EntryRows(entries)]

\* week.dailyData.reduce((sum, day) => sum + day.entries.length, 0)
RECURSIVE TotalDailyEntries(_)
TotalDailyEntries(dailyData) ==
  IF dailyData = <<>> THEN 0
  ELSE Len(Head(dailyData).entries) + TotalDailyEntries(Tail(dailyData))

\* The summary sheet: five metric rows, their values as displayed.
SummarySheet(week) ==
  [name |-> "Summary",
   header |-> <<"Metric", "Value">>,
   rows |-> <<[Metric |-> "Week Number", Value |-> NatToString(week.weekNumber)],
              [Metric |-> "Week Date", Value |-> week.weekDate],
              [Metric |-> "Days Tracked", Value |-> NatToString(Len(week.dailyData))],
              [Metric |-> "Total Daily Entries",
               Value |-> NatToString(TotalDailyEntries(week.dailyData))],
              [Metric |-> "Weekly Entries", Value |-> NatToString(Len(week.weeklyData))]>>]

\* What a call of the exporter did: whether it threw, its error message or
\* its return value, and the files it wrote, in order.
Threw(message) == [threw |-> TRUE, error |-> message, value |-> "", written |-> <<>>]

Returns(message, written) ==
  [threw |-> FALSE, error |-> "", value |-> message, written |-> written]

EmptyDataMessage == "No data to export - both daily and weekly data are empty"

(***************************************************************************)
(* fs.writeJSON(outputPath, jsonData, {spaces: 2}): the text of             *)
(* JSON.stringify(jsonData, null, 2) followed by a line feed.  Numbers are  *)
(* written in decimal, strings between double quotes with the double quote, *)
(* the backslash and the line feed escaped, the members of an object and    *)
(* the elements of an array one per line, indented by two spaces a level.   *)
(***************************************************************************)
Pad(n) == SubSeq("                                ", 1, n)

\* A variant of JsonEscape that escapes nothing.
JsonEscapeNone(s) == s

RECURSIVE JsonEscape(_)
JsonEscape(s) ==
  IF s = "" THEN ""
  ELSE LET c == SubSeq(s, 1, 1)
           e == CASE c = "\"" -> "\\\""
                  [] c = "\\" -> "\\\\"
                  [] c = "\n" -> "\\n"
                  [] OTHER -> c
       IN e \o JsonEscape(SubSeq(s, 2, Len(s)))

JsonQuote(s) == "\"" \o JsonEscape(s) \o "\""

JsonNumber(n) == NumberToString(n)

JsonMember(key, text) == JsonQuote(key) \o ": " \o text

\* The items one per line at an indentation, separated by commas.
RECURSIVE JsonLines(_, _)
JsonLines(items, indent) ==
  IF Len(items) = 1 THEN Pad(indent) \o items[1]
  ELSE Pad(indent) \o items[1] \o ",\n" \o JsonLines(Tail(items), indent)

JsonObject(members, indent) ==
  IF members = <<>> THEN "{}"
  ELSE "{\n" \o JsonLines(members, indent + 2) \o "\n" \o Pad(indent) \o "}"

JsonArray(elements, indent) ==
  IF elements = <<>> THEN "[]"
  ELSE "[\n" \o JsonLines(elements, indent + 2) \o "\n" \o Pad(indent) \o "]"

stringifyEntry(entry, indent) ==
  JsonObject(<<JsonMember("rank", JsonNumber(entry.rank)),
               JsonMember("commanderName", JsonQuote(entry.commanderName)),
               JsonMember("points", JsonNumber(entry.points))>>, indent)

stringifyEntries(entries, indent) ==
  JsonArray([i \in 1..Len(entries) |-> stringifyEntry(entries[i], indent + 2)], indent)

stringifyDay(day, indent) ==
  JsonObject(<<JsonMember("day", JsonQuote(day.day)),
               JsonMember("entries", stringifyEntries(day.entries, indent + 2))>>, indent)

stringifyDailyData(dailyData, indent) ==
  JsonArray([i \in 1..Len(dailyData) |-> stringifyDay(dailyData[i], indent + 2)], indent)

stringifyWeek(week, indent) ==
  JsonObject(<<JsonMember("weekNumber", JsonNumber(week.weekNumber)),
               JsonMember("weekDate", JsonQuote(week.weekDate)),
               JsonMember("dailyData", stringifyDailyData(week.dailyData, indent + 2)),
               JsonMember("weeklyData", stringifyEntries(week.weeklyData, indent + 2))>>,
             indent)

stringifyMetadata(metadata, indent) ==
  JsonObject(<<JsonMember("totalWeeks", JsonNumber(metadata.totalWeeks)),
               JsonMember("totalScreenshots", JsonNumber(metadata.totalScreenshots)),
               JsonMember("extractedAt", JsonQuote(metadata.extractedAt))>>, indent)

\* The text written for jsonData, its keys in the order of the object literal.
writeJSON(jsonData) ==
  JsonObject([i \in 1..Len(jsonData.keys) |->
                IF jsonData.keys[i] = "week"
                THEN JsonMember("week", stringifyWeek(jsonData.weekValue[1], 2))
                ELSE JsonMember("metadata", stringifyMetadata(jsonData.metadata, 2))],
             0) \o "\n"

\* const jsonData = metadata ? { week, metadata } : { week }
jsonDataOf(week, withMetadata, metadata) ==
  IF withMetadata
  THEN [keys |-> <<"week", "metadata">>, weekValue |-> <<week>>, metadata |-> metadata]
  ELSE [keys |-> <<"week">>, weekValue |-> <<week>>, metadata |-> EmptyMetadata]

exportToJSON(week, outputPath, withMetadata, metadata) ==
  Returns("Exported week " \o NatToString(week.weekNumber) \o " to " \o outputPath,
          <<[path |-> outputPath, format |-> "json", tables |-> <<>>,
             doc |-> jsonDataOf(week, withMetadata, metadata),
             text |-> writeJSON(jsonDataOf(week, withMetadata, metadata))]>>)

\* A variant of exportToCSV that refuses a week without daily buckets.
exportToCSVDailyRequired(week, outputPath) ==
  LET baseDir == dirname(outputPath)
      baseName == basenameExt(outputPath, ".csv")
      dayFiles == [i \in 1..Len(week.dailyData) |->
                     CsvFile(pathJoin(baseDir, baseName \o "_" \o week.dailyData[i].day \o ".csv"),
                             week.dailyData[i].entries)]
      weeklyFile == CsvFile(pathJoin(baseDir, baseName \o "_Weekly.csv"), week.weeklyData)
      exportedFiles == IF Len(week.weeklyData) > 0 THEN Append(dayFiles, weeklyFile) ELSE dayFiles
  IN  IF Len(week.dailyData) = 0
      THEN Threw("No data to export - both daily and weekly data are empty")
      ELSE Returns("Exported week " \o NatToString(week.weekNumber) \o " to "
                     \o NatToString(Len(exportedFiles)) \o " CSV files",
                   exportedFiles)

exportToCSV(week, outputPath) ==
  LET baseDir == dirname(outputPath)
      baseName == basenameExt(outputPath, ".csv")
      dayFiles == [i \in 1..Len(week.dailyData) |->
                     CsvFile(pathJoin(baseDir, baseName \o "_" \o week.dailyData[i].day \o ".csv"),
                             week.dailyData[i].entries)]
      weeklyFile == CsvFile(pathJoin(baseDir, baseName \o "_Weekly.csv"), week.weeklyData)
      exportedFiles == IF Len(week.weeklyData) > 0 THEN Append(dayFiles, weeklyFile) ELSE dayFiles
  IN  IF Len(week.weeklyData) = 0 /\ Len(week.dailyData) = 0
      THEN Threw(EmptyDataMessage)
      ELSE Returns("Exported week " \o NatToString(week.weekNumber) \o " to "
                     \o NatToString(Len(exportedFiles)) \o " CSV files",
                   exportedFiles)

\* A variant of exportToXLSX that refuses a week without daily buckets.
exportToXLSXDailyRequired(week, outputPath) ==
  LET daySheets == [i \in 1..Len(week.dailyData) |->
                      EntrySheet(week.dailyData[i].day, week.dailyData[i].entries)]
  IN  IF Len(week.weeklyData) > 0 /\ Len(week.dailyData) > 0
      THEN Returns("Exported week " \o NatToString(week.weekNumber) \o " to " \o outputPath,
                   <<[path |-> outputPath, format |-> "xlsx",
                      tables |-> daySheets \o <<EntrySheet("Weekly", week.weeklyData),
                                                SummarySheet(week)>>,
                      doc |-> NoDoc]>>)
      ELSE Threw("No data to export - both daily and weekly data are empty")

exportToXLSX(week, outputPath) ==
  LET daySheets == [i \in 1..Len(week.dailyData) |->
                      EntrySheet(week.dailyData[i].day, week.dailyData[i].entries)]
  IN  IF Len(week.weeklyData) > 0
      THEN Returns("Exported week " \o NatToString(week.weekNumber) \o " to " \o outputPath,
                   <<[path |-> outputPath, format |-> "xlsx",
                      tables |-> daySheets \o <<EntrySheet("Weekly", week.weeklyData),
                                                SummarySheet(week)>>,
                      doc |-> NoDoc]>>)
      ELSE Threw(EmptyDataMessage)

\* A variant of exportPath that looks for "_20" in the whole path.
exportPathAnywhere(week, options, today) ==
  IF Includes(options.outputPath, "_20")
  THEN options.outputPath
  ELSE pathJoin(dirname(options.outputPath),
                "week" \o NatToString(week.weekNumber) \o "_" \o today \o "." \o options.format)

\* Lines 23-39: the path the export writes to; today is the date part of the
\* clock reading.
exportPath(week, options, today) ==
  IF Includes(basename(options.outputPath), "_20")
  THEN options.outputPath
  ELSE pathJoin(dirname(options.outputPath),
                "week" \o NatToString(week.weekNumber) \o "_" \o today \o "." \o options.format)

exportData(data, options, today) ==
  IF Len(data.weeks) = 0
  THEN Threw("No week data available to export")
  ELSE LET week == data.weeks[Len(data.weeks)]
           outputPath == exportPath(week, options, today)
       IN  CASE options.format = "json" ->
                  exportToJSON(week, outputPath, options.includeMetadata, data.metadata)
             [] options.format = "csv" -> exportToCSV(week, outputPath)
             [] options.format = "xlsx" -> exportToXLSX(week, outputPath)
             [] OTHER -> Threw("Unsupported export format: " \o options.format)

(***************************************************************************)
(* FileSystemUtils.  A directory tree is the input path, whether it exists *)
(* and the entries below it; an entry is a name, whether it is a directory *)
(* and its own entries, each list in the order readdir returns it.         *)
(***************************************************************************)
\* The characters of file names in the order of their UTF-16 code units.
CodeUnitOrder == "-.0123456789ABCDEFGHIJKLMNOPQRSTUVWXYZ_abcdefghijklmnopqrstuvwxyz"

CodeUnitRank == [c \in {CharAt(CodeUnitOrder, i) : i \in 1..Len(CodeUnitOrder)} |->
                   IndexIn(CodeUnitOrder, c)]

\* a < b in the order of the default Array.prototype.sort: by code units, a
\* proper prefix first.
RECURSIVE StrLess(_, _)
StrLess(a, b) ==
  IF Len(b) = 0 THEN FALSE
  ELSE IF Len(a) = 0 THEN TRUE
  ELSE IF CharAt(a, 1) = CharAt(b, 1) THEN StrLess(SliceFrom(a, 2), SliceFrom(b, 2))
  ELSE CodeUnitRank[CharAt(a, 1)] < CodeUnitRank[CharAt(b, 1)]

\* names.sort()
sortNames(names) ==
  LET Before(i) == {j \in 1..Len(names) :
                      StrLess(names[j], names[i]) \/ (names[j] = names[i] /\ j < i)}
  IN  [p \in 1..Len(names) |->
         names[CHOOSE i \in 1..Len(names) : Cardinality(Before(i)) + 1 = p]]

\* /^week\d+$/i.test(name)
isWeekDirectory(name) ==
  /\ Len(name) >= 5
  /\ ToLowerCase(SubSeq(name, 1, 4)) = "week"
  /\ \A i \in 5..Len(name) : IsDigit(CharAt(name, i))

\* The argument of compareDays and isDayDirectory, case-normalized.
normalizeDay(day) == ToUpperCase(CharAt(day, 1)) \o ToLowerCase(SliceFrom(day, 2))

isDayDirectory(name) == \E i \in 1..Len(DayOfWeek) : DayOfWeek[i] = normalizeDay(name)

\* path.extname(fileName)
extname(fileName) ==
  LET dot == IF \E i \in 2..Len(fileName) : CharAt(fileName, i) = "."
             THEN CHOOSE i \in 2..Len(fileName) :
                    CharAt(fileName, i) = "." /\ \A j \in (i + 1)..Len(fileName) :
                                                   CharAt(fileName, j) # "."
             ELSE 0
  IN  IF dot = 0 THEN "" ELSE SliceFrom(fileName, dot)

imageExtensions == {".jpg", ".jpeg", ".png", ".gif", ".bmp", ".webp"}

isImageFile(fileName) == ToLowerCase(extname(fileName)) \in imageExtensions

\* entries.filter(entry => entry.isDirectory() && Test(entry.name)).map(entry => entry.name)
DirNames(entries) ==
  LET IsDir(e) == e.isDir
      dirs == SelectSeq(entries, IsDir)
  IN  [i \in 1..Len(dirs) |-> dirs[i].name]

\* The entries of the entry called name.
ChildrenOf(entries, name) ==
  (CHOOSE e \in {entries[i] : i \in 1..Len(entries)} : e.name = name).entries

\* weekDirs sorted by compareWeeks; the most recent week is its last element.
sortedWeekDirs(entries) ==
  LET weekDirs == SelectSeq(DirNames(entries), isWeekDirectory)
  IN  StableSort(weekDirs, [i \in 1..Len(weekDirs) |-> extractWeekNumber(weekDirs[i])])

\* The week directory of a tree whose root exists: whether there is one, its
\* path and its entries.
findWeek(tree) ==
  IF isWeekDirectory(basename(tree.path))
  THEN [found |-> TRUE, path |-> tree.path, entries |-> tree.entries]
  ELSE LET weekDirs == sortedWeekDirs(tree.entries)
       IN  IF Len(weekDirs) > 0
           THEN [found |-> TRUE, path |-> pathJoin(tree.path, weekDirs[Len(weekDirs)]),
                 entries |-> ChildrenOf(tree.entries, weekDirs[Len(weekDirs)])]
           ELSE [found |-> FALSE, path |-> "", entries |-> <<>>]

getDayDirectories(entries) ==
  LET dayDirs == SelectSeq(DirNames(entries), isDayDirectory)
  IN  StableSort(dayDirs, [i \in 1..Len(dayDirs) |-> dayOrder(normalizeDay(dayDirs[i]))])

getImageFiles(entries) ==
  LET names == [i \in 1..Len(entries) |-> entries[i].name]
  IN  sortNames(SelectSeq(names, isImageFile))

\* A variant of ScreenshotsFrom that labels a screenshot with the canonical
\* form of its directory's name.
RECURSIVE ScreenshotsFromCanonical(_, _, _, _)
ScreenshotsFromCanonical(week, weekName, dayDirs, k) ==
  IF k > Len(dayDirs) THEN <<>>
  ELSE LET imageFiles == getImageFiles(ChildrenOf(week.entries, dayDirs[k]))
       IN  [i \in 1..Len(imageFiles) |->
              ScreenshotFile(imageFiles[i], weekName, normalizeDay(dayDirs[k]))]
             \o ScreenshotsFromCanonical(week, weekName, dayDirs, k + 1)

\* The screenshots of the day directories dayDirs[k..], in push order.
RECURSIVE ScreenshotsFrom(_, _, _, _)
ScreenshotsFrom(week, weekName, dayDirs, k) ==
  IF k > Len(dayDirs) THEN <<>>
  ELSE LET imageFiles == getImageFiles(ChildrenOf(week.entries, dayDirs[k]))
       IN  [i \in 1..Len(imageFiles) |-> ScreenshotFile(imageFiles[i], weekName, dayDirs[k])]
             \o ScreenshotsFrom(week, weekName, dayDirs, k + 1)

\* The value thrown by the catch of lines 62-66.
ScanThrew(message) ==
  [threw |-> TRUE, error |-> "Failed to scan directory: " \o message, screenshots |-> <<>>]

\* Line 61: screenshots.sort((a, b) => this.compareDays(a.day, b.day))
sortByDay(list) ==
  StableSort(list, [i \in 1..Len(list) |-> dayOrder(normalizeDay(list[i].day))])

\* A variant of scanDays that refuses a week with a directory that is no day.
scanDaysStrict(week, dayDirs) ==
  IF Len(dayDirs) = 0 \/ Len(dayDirs) # Len(DirNames(week.entries))
  THEN ScanThrew("No day directories found in " \o week.path)
  ELSE [threw |-> FALSE, error |-> "",
        screenshots |-> sortByDay(ScreenshotsFrom(week, basename(week.path), dayDirs, 1))]

\* Lines 35-61 of scanScreenshotDirectory, dayDirs being the day directories
\* of the week.
scanDays(week, dayDirs) ==
  IF Len(dayDirs) = 0
  THEN ScanThrew("No day directories found in " \o week.path)
  ELSE [threw |-> FALSE, error |-> "",
        screenshots |-> sortByDay(ScreenshotsFrom(week, basename(week.path), dayDirs, 1))]

NoWeekMessage ==
  "No week directory found. Please provide a path containing a week directory (e.g., \"week1\")"

\* Lines 25-61 of scanScreenshotDirectory, week being the week directory found.
scanWeek(week) ==
  IF ~week.found THEN ScanThrew(NoWeekMessage)
  ELSE scanDays(week, getDayDirectories(week.entries))

\* scanScreenshotDirectory: whether it threw, its message, the list returned.
scanScreenshotDirectory(tree) ==
  IF ~tree.exists THEN ScanThrew("Directory does not exist: " \o tree.path)
  ELSE scanWeek(findWeek(tree))

\* A variant of EmptyDayIssues that does not look for images.
EmptyDayIssuesNone(week, dayDirs, k) == <<>>

\* The issues of the day directories dayDirs[k..] that hold no image.
RECURSIVE EmptyDayIssues(_, _, _)
EmptyDayIssues(week, dayDirs, k) ==
  IF k > Len(dayDirs) THEN <<>>
  ELSE (IF Len(getImageFiles(ChildrenOf(week.entries, dayDirs[k]))) = 0
        THEN <<"No image files found in " \o basename(week.path) \o "/" \o dayDirs[k]>>
        ELSE <<>>)
         \o EmptyDayIssues(week, dayDirs, k + 1)

\* A variant of validateDays that reports a day without images and still
\* calls the structure valid.
validateDaysLenient(week, dayDirs) ==
  IF Len(dayDirs) = 0
  THEN [valid |-> FALSE, issues |-> <<"No day directories found in " \o basename(week.path)>>]
  ELSE [valid |-> TRUE, issues |-> EmptyDayIssues(week, dayDirs, 1)]

\* Lines 209-227 of validateDirectoryStructure.
validateDays(week, dayDirs) ==
  IF Len(dayDirs) = 0
  THEN [valid |-> FALSE, issues |-> <<"No day directories found in " \o basename(week.path)>>]
  ELSE LET issues == EmptyDayIssues(week, dayDirs, 1)
       IN  [valid |-> Len(issues) = 0, issues |-> issues]

\* Lines 201-227 of validateDirectoryStructure.
validateWeek(week) ==
  IF ~week.found THEN [valid |-> FALSE, issues |-> <<NoWeekMessage>>]
  ELSE validateDays(week, getDayDirectories(week.entries))

validateDirectoryStructure(tree) ==
  IF ~tree.exists
  THEN [valid |-> FALSE, issues |-> <<"Directory does not exist: " \o tree.path>>]
  ELSE validateWeek(findWeek(tree))

(***************************************************************************)
(* DataProcessor.validateWeekData                                          *)
(***************************************************************************)
\* The issues of the buckets dailyData[k..], in forEach order.
RECURSIVE DayIssues(_, _)
DayIssues(dailyData, k) ==
  IF k > Len(dailyData) THEN <<>>
  ELSE LET day == dailyData[k]
           ranks == {day.entries[i].rank : i \in 1..Len(day.entries)}
       IN  (IF day.day = "" \/ \A i \in 1..Len(DayOfWeek) : DayOfWeek[i] # day.day
            THEN <<"Invalid day name: " \o day.day>> ELSE <<>>)
             \o (IF Len(day.entries) = 0
                 THEN <<"No entries found for day: " \o day.day>>
                 ELSE IF Len(day.entries) # Cardinality(ranks)
                 THEN <<"Duplicate ranks found for day: " \o day.day>>
                 ELSE <<>>)
             \o DayIssues(dailyData, k + 1)

\* A variant of validateWeekData that stops at the first check that fails.
validateWeekDataFirstIssue(week) ==
  LET issues ==
        IF week.weekNumber <= 0
        THEN <<"Invalid week number: " \o NumberToString(week.weekNumber)>>
        ELSE IF week.weekDate = "" THEN <<"Missing week date">>
        ELSE IF Len(week.dailyData) = 0 THEN <<"No daily data found">>
        ELSE DayIssues(week.dailyData, 1)
  IN  [valid |-> Len(issues) = 0, issues |-> issues]

validateWeekData(week) ==
  LET issues ==
        (IF week.weekNumber <= 0
         THEN <<"Invalid week number: " \o NumberToString(week.weekNumber)>> ELSE <<>>)
          \o (IF week.weekDate = "" THEN <<"Missing week date">> ELSE <<>>)
          \o (IF Len(week.dailyData) = 0 THEN <<"No daily data found">>
              ELSE DayIssues(week.dailyData, 1))
  IN  [valid |-> Len(issues) = 0, issues |-> issues]

(***************************************************************************)
(* The wall clock.  Each reading is an instant not earlier than the last.  *)
(***************************************************************************)
\* new Date().toISOString() around a change of date.
Instants == <<"2025-06-30T23:59:59.000Z", "2025-07-01T00:00:00.000Z">>

(***************************************************************************)
(* State                                                                   *)
(***************************************************************************)
VARIABLES
  clock,              \* index in Instants of the last reading of the wall clock
  results,            \* processResults: its argument
  aggPc,              \* processResults: "idle", "called", "folding", "returned", "threw"
  successfulResults,  \* processResults: the filtered batch
  foldIdx,            \* processResults: index of the next result of the for loop
  weekData,           \* processResults: the week under construction
  extractedData,      \* processResults: the value returned
  aggError,           \* processResults: the message of the error thrown
  exportOptions,      \* exportData: its options argument
  expPc,              \* exportData: "idle", "called", "returned", "threw"
  exportResult,       \* exportData: the string returned, or the message thrown
  files,              \* the files written so far, in order
  tree,               \* CLI: the directory tree at the input path
  options,            \* CLI: the command line options
  cliPc,              \* CLI: the position of the action
  screenshots,        \* CLI: the list returned by scanScreenshotDirectory
  shotIdx,            \* processScreenshots: index of the next screenshot
  cliResults,         \* processScreenshots: its results array
  requestCount,       \* AIService.requestCount
  backupPath,         \* CLI: the path of the backup document
  backupSaved,        \* CLI: whether the backup document was written
  console,            \* the lines printed so far
  exitCode,           \* the exit status, once cliPc = "exited"
  nowMs,              \* Date.now(), in milliseconds
  lastRequestTime,    \* AIService.lastRequestTime
  sendTimes,          \* the instants at which a request left for the AI service
  resPc,              \* FileSystemUtils: "idle", "scan", "validate", "scanned", "validated"
  scanned,            \* scanScreenshotDirectory: its outcome
  validated,          \* validateDirectoryStructure: its result
  valPc,              \* validateWeekData: "idle", "called", "returned"
  weekValidation      \* validateWeekData: its result

aggVars == <<results, aggPc, successfulResults, foldIdx, weekData, extractedData, aggError>>

expVars == <<exportOptions, expPc, exportResult, files>>

aiVars == <<nowMs, lastRequestTime, sendTimes>>

cliVars == <<tree, options, cliPc, screenshots, shotIdx, cliResults, requestCount,
             backupPath, backupSaved, console, exitCode, aiVars>>

resVars == <<resPc, scanned, validated>>

valVars == <<valPc, weekValidation>>

vars == <<clock, aggVars, expVars, cliVars, resVars, valVars>>

(***************************************************************************)
(* DataProcessor.processResults, one step per loop iteration.              *)
(***************************************************************************)
\* A variant of metadataOf that counts every result of the batch.
metadataOfBatch(successful, now) ==
  [totalWeeks |-> 1, totalScreenshots |-> Len(results), extractedAt |-> now]

\* Lines 29 and 50-54: the metadata of the value returned.
metadataOf(successful, now) ==
  [totalWeeks |-> 1, totalScreenshots |-> Len(successful), extractedAt |-> now]

\* Lines 9-37: filter the batch, throw on an empty one, create the week.
ProcessResultsBegin ==
  /\ aggPc = "called"
  /\ LET successful == successfulOf(results)
         weekName == IF successful[1].file.week # "" THEN successful[1].file.week ELSE "week1"
     IN  /\ successfulResults' = successful
         /\ IF Len(successful) = 0
            THEN /\ aggPc' = "threw"
                 /\ aggError' = "No successful results to process"
                 /\ UNCHANGED <<foldIdx, weekData>>
            ELSE IF ~weekStartDateValid(weekName)
            THEN /\ aggPc' = "threw"
                 /\ aggError' = "Invalid time value"
                 /\ UNCHANGED <<foldIdx, weekData>>
            ELSE /\ aggPc' = "folding"
                 /\ weekData' = [weekNumber |-> extractWeekNumber(weekName),
                                 weekDate |-> calculateWeekStartDate(weekName),
                                 dailyData |-> <<>>,
                                 weeklyData |-> <<>>]
                 /\ foldIdx' = 1
                 /\ UNCHANGED aggError
  /\ UNCHANGED <<clock, results, extractedData, expVars, cliVars, resVars, valVars>>

\* Lines 40-42: one iteration of the loop over the successful results.
ProcessResultsFold ==
  /\ aggPc = "folding"
  /\ foldIdx <= Len(successfulResults)
  /\ weekData' = addResultToWeekData(weekData, successfulResults[foldIdx])
  /\ foldIdx' = foldIdx + 1
  /\ UNCHANGED <<clock, results, aggPc, successfulResults, extractedData, aggError, expVars,
               cliVars, resVars, valVars>>

\* Lines 44-55: sort the daily buckets, read the clock, return.
ProcessResultsEnd ==
  /\ aggPc = "folding"
  /\ foldIdx > Len(successfulResults)
  /\ \E t \in clock..Len(Instants) :
       /\ clock' = t
       /\ weekData' = [weekData EXCEPT !.dailyData = sortDailyData(weekData.dailyData)]
       /\ extractedData' =
            [weeks |-> <<weekData'>>,
             metadata |-> metadataOf(successfulResults, Instants[t])]
  /\ aggPc' = "returned"
  /\ UNCHANGED <<results, successfulResults, foldIdx, aggError, expVars, cliVars, resVars, valVars>>

(***************************************************************************)
(* ExportUtils.exportData, called on extractedData with exportOptions.     *)
(***************************************************************************)
ExportData ==
  /\ expPc = "called"
  /\ \E t \in clock..Len(Instants) :
       LET outcome == exportData(extractedData, exportOptions, SplitFirst(Instants[t], "T"))
       IN  /\ clock' = t
           /\ expPc' = IF outcome.threw THEN "threw" ELSE "returned"
           /\ exportResult' = IF outcome.threw THEN outcome.error ELSE outcome.value
           /\ files' = files \o outcome.written
  /\ UNCHANGED <<aggVars, exportOptions, cliVars, resVars, valVars>>

ExportIdle ==
  /\ exportOptions = [format |-> "json", outputPath |-> "", includeMetadata |-> FALSE]
  /\ expPc = "idle"
  /\ exportResult = ""
  /\ files = <<>>

(***************************************************************************)
(* FileSystemUtils called on its own on the tree.                          *)
(***************************************************************************)
NotScanned == [threw |-> FALSE, error |-> "", screenshots |-> <<>>]

NotValidated == [valid |-> FALSE, issues |-> <<>>]

ResolveIdle ==
  /\ resPc = "idle"
  /\ scanned = NotScanned
  /\ validated = NotValidated
  /\ valPc = "idle"
  /\ weekValidation = NotValidated

\* DataProcessor.validateWeekData called on its own on extractedData.weeks[0].
ValidateWeekData ==
  /\ valPc = "called"
  /\ weekValidation' = validateWeekData(extractedData.weeks[1])
  /\ valPc' = "returned"
  /\ UNCHANGED <<clock, aggVars, expVars, cliVars, resVars>>

ScanScreenshotDirectory ==
  /\ resPc = "scan"
  /\ scanned' = scanScreenshotDirectory(tree)
  /\ resPc' = "scanned"
  /\ UNCHANGED <<clock, aggVars, expVars, cliVars, valVars, validated>>

ValidateDirectoryStructure ==
  /\ resPc = "validate"
  /\ validated' = validateDirectoryStructure(tree)
  /\ resPc' = "validated"
  /\ UNCHANGED <<clock, aggVars, expVars, cliVars, valVars, scanned>>

\* Lines 72-84 of index.ts: the scan of a root whose validation returned
\* valid, the tree unchanged in between.
ScanValidated ==
  /\ resPc = "validated"
  /\ validated.valid
  /\ scanned' = scanScreenshotDirectory(tree)
  /\ resPc' = "validated and scanned"
  /\ UNCHANGED <<clock, aggVars, expVars, cliVars, valVars, validated>>

(***************************************************************************)
(* AIService: the rate limit of its requests.  Time is Date.now() in       *)
(* milliseconds; a timer is taken to fire exactly when it is due, the      *)
(* earliest it can.                                                        *)
(***************************************************************************)
\* enforceRateLimit, line 261.
minDelay == 1000

\* enforceRateLimit: how long it waits when called at now.
rateLimitDelay(now, last) == IF now - last < minDelay THEN minDelay - (now - last) ELSE 0

\* The time a request takes from leaving to its response or its failure.
Latencies == {0, 300}

\* A new AIService in a process started long after the epoch.
AiServiceNew ==
  /\ nowMs = 2 * minDelay
  /\ lastRequestTime = 0
  /\ sendTimes = <<>>

(***************************************************************************)
(* The command line action of index.ts, one step per stage of the          *)
(* pipeline.  The stages run in sequence; processResults and exportData    *)
(* are the actions above, started by the stage that calls them.            *)
(***************************************************************************)
CliIdle ==
  /\ tree = [path |-> "", exists |-> FALSE, entries |-> <<>>]
  /\ options = [format |-> "json", dryRun |-> FALSE, apiKey |-> FALSE,
                delayBetweenRequests |-> minDelay, weeklyOnly |-> FALSE]
  /\ cliPc = "idle"
  /\ screenshots = <<>>
  /\ shotIdx = 1
  /\ cliResults = <<>>
  /\ requestCount = 0
  /\ backupPath = ""
  /\ backupSaved = FALSE
  /\ console = <<>>
  /\ exitCode = 0
  /\ AiServiceNew
  /\ ResolveIdle

\* process.exit(code) after printing lines.
Exit(lines, code) ==
  /\ console' = console \o lines
  /\ cliPc' = "exited"
  /\ exitCode' = code

\* validation.issues.forEach(issue => console.error(`  - ${issue}`))
IssueLines(issues) == [i \in 1..Len(issues) |-> "  - " \o issues[i]]

\* Lines 69-81: validate the input directory.
CliValidate ==
  /\ cliPc = "start"
  /\ LET validation == validateDirectoryStructure(tree)
     IN  IF ~validation.valid
         THEN Exit(<<"Directory validation failed", "Directory structure issues:">>
                     \o IssueLines(validation.issues), 1)
         ELSE /\ cliPc' = "scan"
              /\ UNCHANGED <<console, exitCode>>
  /\ UNCHANGED <<clock, aggVars, expVars, aiVars, resVars, valVars, tree, options, screenshots, shotIdx, cliResults,
                 requestCount, backupPath, backupSaved>>

\* Lines 83-117: scan for screenshots; an error thrown goes to the catch of
\* lines 240-244.
CliScan ==
  /\ cliPc = "scan"
  /\ LET scan == scanScreenshotDirectory(tree)
     IN  IF scan.threw
         THEN /\ Exit(<<"Processing failed", "Error: " \o scan.error>>, 1)
              /\ UNCHANGED screenshots
         ELSE IF Len(scan.screenshots) = 0
         THEN /\ Exit(<<"No screenshots found",
                        "No screenshot files found in the input directory">>, 1)
              /\ UNCHANGED screenshots
         ELSE /\ screenshots' = scan.screenshots
              /\ console' = console \o
                   <<"Found " \o NatToString(Len(scan.screenshots)) \o " screenshots",
                     "Week: " \o scan.screenshots[1].week,
                     "Output Format: " \o options.format>>
              /\ cliPc' = "scanned"
              /\ UNCHANGED exitCode
  /\ UNCHANGED <<clock, aggVars, expVars, aiVars, resVars, valVars, tree, options, shotIdx, cliResults, requestCount,
                 backupPath, backupSaved>>

\* screenshots.forEach((screenshot, index) => console.log(...)) of lines 121-125.
DryRunLines ==
  [i \in 1..Len(screenshots) |->
     "  " \o NatToString(i) \o ". " \o screenshots[i].week \o "/" \o screenshots[i].day
       \o "/" \o screenshots[i].fileName]

\* A variant of CliDryRun that lists nothing and goes on to the extraction.
CliDryRunProceeds ==
  /\ cliPc = "scanned"
  /\ options.dryRun
  /\ cliPc' = "processing"
  /\ UNCHANGED <<clock, aggVars, expVars, aiVars, resVars, valVars, tree, options, screenshots, shotIdx, cliResults,
                 requestCount, backupPath, backupSaved, console, exitCode>>

\* Lines 119-127: a dry run lists the screenshots and returns.
CliDryRun ==
  /\ cliPc = "scanned"
  /\ options.dryRun
  /\ Exit(<<"Dry run mode - showing what would be processed:">> \o DryRunLines, 0)
  /\ UNCHANGED <<clock, aggVars, expVars, aiVars, resVars, valVars, tree, options, screenshots, shotIdx, cliResults,
                 requestCount, backupPath, backupSaved>>

\* Lines 138-157: check the API key, create the service, call processScreenshots.
CliInitService ==
  /\ cliPc = "scanned"
  /\ ~options.dryRun
  /\ IF ~options.apiKey
     THEN Exit(<<"No API key provided",
                 "API key is required. Use --apiKey option or set AI_API_KEY environment variable.">>,
               1)
     ELSE /\ console' = console \o <<"AI service initialized", "Processing screenshots:">>
          /\ cliPc' = "processing"
          /\ UNCHANGED exitCode
  /\ UNCHANGED <<clock, aggVars, expVars, aiVars, resVars, valVars, tree, options, screenshots, shotIdx, cliResults,
                 requestCount, backupPath, backupSaved>>

\* What one extraction can come to: the image cannot be read or the request
\* fails, a response that cannot be parsed, or a list of entries.
Extractions == {<<>>, <<RankingEntry(1, "A", 100), RankingEntry(2, "B", 90)>>}

\* A variant of onExtractionError that records nothing for the failed file.
onExtractionErrorSkip(list, screenshot) == list

\* Lines 293-306 of processScreenshots: the catch pushes a failed outcome.
onExtractionError(list, screenshot) ==
  Append(list, ProcessingResult(screenshot, <<>>, FALSE))

\* Lines 265-307 of processScreenshots: one iteration of its loop.  The image
\* is read; the request waits for the rate limit, leaves at sent and is
\* answered or fails at received; the answer is parsed; a success is followed
\* by the configured delay unless the screenshot is the last one.
CliProcessScreenshot ==
  /\ cliPc = "processing"
  /\ shotIdx <= Len(screenshots)
  /\ LET screenshot == screenshots[shotIdx]
         label == screenshot.day \o "/" \o screenshot.fileName
         sent == nowMs + rateLimitDelay(nowMs, lastRequestTime)
         failed == /\ cliResults' = onExtractionError(cliResults, screenshot)
                   /\ console' = Append(console, "Failed to process " \o label)
     IN  \/ \* readImageAsBase64 throws
            /\ failed
            /\ UNCHANGED <<requestCount, aiVars>>
         \/ \* the request fails
            \E latency \in Latencies :
              /\ failed
              /\ sendTimes' = Append(sendTimes, sent)
              /\ nowMs' = sent + latency
              /\ UNCHANGED <<requestCount, lastRequestTime>>
         \/ \* the response cannot be parsed
            \E latency \in Latencies :
              /\ failed
              /\ sendTimes' = Append(sendTimes, sent)
              /\ nowMs' = sent + latency
              /\ lastRequestTime' = sent + latency
              /\ requestCount' = requestCount + 1
         \/ \E latency \in Latencies, extracted \in Extractions :
              /\ cliResults' = Append(cliResults, ProcessingResult(screenshot, extracted, TRUE))
              /\ console' = Append(console, "Processed " \o label \o ": "
                                     \o NatToString(Len(extracted)) \o " entries extracted")
              /\ sendTimes' = Append(sendTimes, sent)
              /\ lastRequestTime' = sent + latency
              /\ requestCount' = requestCount + 1
              /\ nowMs' = sent + latency
                           + (IF shotIdx < Len(screenshots)
                              THEN options.delayBetweenRequests ELSE 0)
  /\ shotIdx' = shotIdx + 1
  /\ UNCHANGED <<clock, aggVars, expVars, resVars, valVars, tree, options, cliPc, screenshots, backupPath,
                 backupSaved, exitCode>>

\* A variant of CliProcessResults that does not wait for processScreenshots
\* to return.
CliProcessResultsEarly ==
  /\ cliPc = "processing"
  /\ results' = cliResults
  /\ aggPc' = "called"
  /\ cliPc' = "aggregating"
  /\ UNCHANGED <<clock, successfulResults, foldIdx, weekData, extractedData, aggError, expVars,
                 aiVars, resVars, valVars, tree, options, screenshots, shotIdx, cliResults, requestCount, backupPath,
                 backupSaved, console, exitCode>>

\* Line 161: processScreenshots has returned; call processResults on its results.
CliProcessResults ==
  /\ cliPc = "processing"
  /\ shotIdx > Len(screenshots)
  /\ results' = cliResults
  /\ aggPc' = "called"
  /\ cliPc' = "aggregating"
  /\ UNCHANGED <<clock, successfulResults, foldIdx, weekData, extractedData, aggError, expVars,
                 aiVars, resVars, valVars, tree, options, screenshots, shotIdx, cliResults, requestCount, backupPath,
                 backupSaved, console, exitCode>>

\* Lines 171-176: the warnings of validateWeekData, none when the week is valid.
WarningLines(week) ==
  LET dataValidation == validateWeekData(week)
  IN  IF dataValidation.valid THEN <<>>
      ELSE <<"Data validation issues found", "Data validation warnings:">>
             \o IssueLines(dataValidation.issues)

\* Lines 161-217: processResults has finished.  Its error goes to the catch of
\* lines 240-244; its value is validated, backed up and handed to exportData.
CliBackup ==
  /\ cliPc = "aggregating"
  /\ aggPc \in {"returned", "threw"}
  /\ IF aggPc = "threw"
     THEN /\ Exit(<<"Processing failed", "Error: " \o aggError>>, 1)
          /\ UNCHANGED <<clock, expVars, backupPath, backupSaved>>
     ELSE \E t \in clock..Len(Instants), saved \in BOOLEAN :
            LET weekName == IF screenshots[1].week # "" THEN screenshots[1].week ELSE "unknown"
                baseFileName == weekName \o "_" \o SplitFirst(Instants[t], "T")
                backup == pathJoin("results", baseFileName \o "_backup.json")
            IN  /\ clock' = t
                /\ backupPath' = backup
                /\ backupSaved' = saved
                /\ console' = console \o WarningLines(extractedData.weeks[1])
                     \o <<"Data processing completed",
                          IF saved THEN "Backup data saved to: " \o backup
                          ELSE "Warning: Failed to save backup data">>
                /\ exportOptions' =
                     [format |-> options.format,
                      outputPath |-> pathJoin("results", baseFileName \o "." \o options.format),
                      includeMetadata |-> TRUE]
                /\ expPc' = "called"
                /\ cliPc' = "exporting"
                /\ UNCHANGED <<exportResult, files, exitCode>>
  /\ UNCHANGED <<aggVars, aiVars, resVars, valVars, tree, options, screenshots, shotIdx, cliResults, requestCount>>

\* DataProcessor.getDataSummary
getDataSummary(week) ==
  [dayCount |-> Len(week.dailyData),
   entryCount |-> TotalDailyEntries(week.dailyData),
   hasWeeklyData |-> Len(week.weeklyData) > 0]

\* Lines 228-239: the final summary.
SummaryLines(week, outputPath, requests) ==
  LET summary == getDataSummary(week)
  IN  <<"Processing Complete!",
        "  Week " \o NatToString(week.weekNumber) \o " data exported",
        "  Days tracked: " \o NatToString(summary.dayCount),
        "  Total entries: " \o NatToString(summary.entryCount
                                             + (IF summary.hasWeeklyData
                                                THEN Len(week.weeklyData) ELSE 0)),
        "  Output path: " \o outputPath,
        "  AI requests made: " \o NatToString(requests)>>

\* A variant of afterExport that leaves the error of exportData to the catch
\* of lines 240-244.
afterExportRethrown(threw, result, week, outputPath, backup, requests) ==
  IF threw
  THEN [lines |-> <<"Processing failed", "Error: " \o result>>, code |-> 1]
  ELSE [lines |-> <<"Export completed: " \o result>>
                    \o SummaryLines(week, outputPath, requests),
        code |-> 0]

\* Lines 213-239: what the action prints once exportData has returned result or
\* thrown it, and the status the process ends with when the action returns.
afterExport(threw, result, week, outputPath, backup, requests) ==
  IF threw
  THEN [lines |-> <<"Export failed: " \o result,
                    "But don't worry! Your data is safely backed up in: " \o backup>>
                    \o SummaryLines(week, backup, requests),
        code |-> 0]
  ELSE [lines |-> <<"Export completed: " \o result>>
                    \o SummaryLines(week, outputPath, requests),
        code |-> 0]

\* Lines 213-239: exportData has finished.
CliFinish ==
  /\ cliPc = "exporting"
  /\ expPc \in {"returned", "threw"}
  /\ LET after == afterExport(expPc = "threw", exportResult, extractedData.weeks[1],
                              exportOptions.outputPath, backupPath, requestCount)
     IN  Exit(after.lines, after.code)
  /\ UNCHANGED <<clock, aggVars, expVars, aiVars, resVars, valVars, tree, options, screenshots, shotIdx, cliResults,
                 requestCount, backupPath, backupSaved>>

(***************************************************************************)
(* Inputs of the aggregator's specification.                               *)
(***************************************************************************)
AggDays == {"Monday", "monday", "Tuesday", "WEEKLY"}
AggWeeks == {"week3"}

\* Two records of rank 1 that differ in the commander, and one of rank 2.
AggRecords ==
  {RankingEntry(1, "A", 100), RankingEntry(1, "B", 90), RankingEntry(2, "A", 80)}

\* The record lists of a successful outcome: none, one record, a repeated rank,
\* and two ranks out of order.
AggExtracted ==
  {<<>>,
   <<RankingEntry(1, "A", 100)>>,
   <<RankingEntry(1, "A", 100), RankingEntry(1, "B", 90)>>,
   <<RankingEntry(2, "A", 80), RankingEntry(1, "A", 100)>>,
   <<RankingEntry(1, "B", 90), RankingEntry(2, "A", 80)>>}

\* The record lists of a failed outcome: none, or one record.
AggFailedExtracted == {<<>>, <<RankingEntry(1, "B", 90)>>}

AggOutcomes ==
  {ProcessingResult(ScreenshotFile("a.png", w, d), x, TRUE) :
     w \in AggWeeks, d \in AggDays, x \in AggExtracted}
  \cup
  {ProcessingResult(ScreenshotFile("a.png", w, "Monday"), x, FALSE) :
     w \in AggWeeks, x \in AggFailedExtracted}

AggBatches == UNION {[1..n -> AggOutcomes] : n \in 0..MaxBatch}

InitAgg ==
  /\ clock = 1
  /\ results \in AggBatches
  /\ aggPc = "called"
  /\ successfulResults = <<>>
  /\ foldIdx = 1
  /\ weekData = EmptyWeek
  /\ extractedData = NoData
  /\ aggError = ""
  /\ ExportIdle
  /\ CliIdle

NextAgg == ProcessResultsBegin \/ ProcessResultsFold \/ ProcessResultsEnd

\* processResults called once on an arbitrary batch.
SpecAgg == InitAgg /\ [][NextAgg]_vars

(***************************************************************************)
(* Inputs of the exporter's specification: exportData called once on a     *)
(* period of distinct daily buckets, in any order.                         *)
(***************************************************************************)
ExportLabels == {"Monday", "Tuesday"}

ExportEntries ==
  {<<>>, <<RankingEntry(1, "A", 100)>>, <<RankingEntry(1, "A", 100), RankingEntry(2, "B", 90)>>}

ExportWeekly == {<<>>, <<RankingEntry(1, "A", 100), RankingEntry(1, "B \"2\" \\o/", 90)>>}

\* Every list of buckets with distinct labels.
ExportDaily ==
  {d \in UNION {[1..n -> [day : ExportLabels, entries : ExportEntries]] :
                  n \in 0..Cardinality(ExportLabels)} :
     \A i, j \in 1..Len(d) : i # j => d[i].day # d[j].day}

ExportWeeks ==
  {[weekNumber |-> extractWeekNumber(w), weekDate |-> calculateWeekStartDate(w),
    dailyData |-> d, weeklyData |-> x] :
     w \in {"week3"}, d \in ExportDaily, x \in ExportWeekly}

ExportFormats == {"json", "csv", "xlsx", "pdf"}

ExportPaths ==
  {"results/week3_2025-06-30.csv", "out/report.xlsx", "report", "run_2025/report.json"}

InitExport ==
  /\ clock = 1
  /\ results = <<>>
  /\ aggPc = "idle"
  /\ successfulResults = <<>>
  /\ foldIdx = 1
  /\ weekData = EmptyWeek
  /\ aggError = ""
  /\ \E w \in ExportWeeks :
       extractedData = [weeks |-> <<w>>,
                        metadata |-> [totalWeeks |-> 1, totalScreenshots |-> 1,
                                      extractedAt |-> Instants[1]]]
  /\ exportOptions \in [format : ExportFormats, outputPath : ExportPaths,
                        includeMetadata : BOOLEAN]
  /\ expPc = "called"
  /\ exportResult = ""
  /\ files = <<>>
  /\ CliIdle

NextExport == ExportData

\* exportData called once on an arbitrary period.
SpecExport == InitExport /\ [][NextExport]_vars

(***************************************************************************)
(* Claims about the aggregator (SpecAgg).                                  *)
(***************************************************************************)
Returned == aggPc = "returned"

\* The period returned by processResults.
ReturnedWeek == extractedData.weeks[1]

RanksIn(entries) == {entries[k].rank : k \in 1..Len(entries)}

WithRank(entries, r) == LET Has(e) == e.rank = r IN SelectSeq(entries, Has)

SortedByRank(entries) ==
  \A k \in 1..(Len(entries) - 1) : entries[k].rank <= entries[k + 1].rank

\* The successful outcomes of the batch whose normalized label is L.
OutcomesOf(L) ==
  {i \in 1..Len(results) : results[i].success /\ normalizeDayName(results[i].file.day) = L}

\* The entries of the returned daily bucket labelled L, <<>> when there is none.
BucketOf(L) ==
  LET daily == ReturnedWeek.dailyData
  IN  IF \E b \in 1..Len(daily) : daily[b].day = L
      THEN daily[CHOOSE b \in 1..Len(daily) : daily[b].day = L].entries
      ELSE <<>>

CanonicalDaily == {MONDAY, TUESDAY, WEDNESDAY, THURSDAY, FRIDAY, SATURDAY}

\* C1: after processResults every daily bucket of the returned period holds
\* records with pairwise distinct ranks, also when one outcome's own record
\* list repeats a rank.
C1_DailyRanksDistinct ==
  Returned =>
    \A b \in 1..Len(ReturnedWeek.dailyData) :
      LET entries == ReturnedWeek.dailyData[b].entries
      IN  \A i, j \in 1..Len(entries) : i # j => entries[i].rank # entries[j].rank

\* C2: daily merge is first-seen-wins.  For every canonical daily label L there
\* is at most one bucket L; its ranks are the union of the ranks of the
\* successful outcomes normalized to L; the records it holds of a rank r are
\* those of the earliest such outcome that contains r; it is sorted by rank.
C2_FirstSeenWins ==
  Returned =>
    \A L \in CanonicalDaily :
      LET daily == ReturnedWeek.dailyData
          union == UNION {RanksIn(results[i].extracted) : i \in OutcomesOf(L)}
          Earliest(r) == CHOOSE i \in OutcomesOf(L) :
                           /\ r \in RanksIn(results[i].extracted)
                           /\ \A j \in OutcomesOf(L) :
                                r \in RanksIn(results[j].extracted) => i <= j
      IN  /\ Cardinality({b \in 1..Len(daily) : daily[b].day = L}) <= 1
          /\ RanksIn(BucketOf(L)) = union
          /\ \A r \in union :
               WithRank(BucketOf(L), r) = WithRank(results[Earliest(r)].extracted, r)
          /\ SortedByRank(BucketOf(L))

\* C2 witness: two successful outcomes of one canonical label carry different
\* records of the same rank, and the merge has returned.
C2_Witness ==
  /\ Returned
  /\ \E L \in CanonicalDaily : \E i, j \in OutcomesOf(L) : \E r \in RanksIn(results[i].extracted) :
       /\ i < j
       /\ r \in RanksIn(results[j].extracted)
       /\ WithRank(results[i].extracted, r) # WithRank(results[j].extracted, r)
       /\ results[i].file.day # results[j].file.day

CountIn(entries, e) == Cardinality({k \in 1..Len(entries) : entries[k] = e})

\* How often record e occurs in the first n outcomes that are successful and
\* normalized to Weekly.
RECURSIVE WeeklyCount(_, _)
WeeklyCount(n, e) ==
  IF n = 0 THEN 0
  ELSE WeeklyCount(n - 1, e)
         + (IF n \in OutcomesOf(WEEKLY) THEN CountIn(results[n].extracted, e) ELSE 0)

\* C3: weeklyData is, as a multiset, the concatenation of the records of the
\* successful outcomes normalized to Weekly (equal ranks of different files are
\* all kept), and it is sorted ascending by rank.
C3_WeeklyPooled ==
  Returned =>
    /\ \A e \in AggRecords \cup {ReturnedWeek.weeklyData[k] : k \in 1..Len(ReturnedWeek.weeklyData)} :
         CountIn(ReturnedWeek.weeklyData, e) = WeeklyCount(Len(results), e)
    /\ SortedByRank(ReturnedWeek.weeklyData)

\* C3 witness: two Weekly outcomes both carry a record of rank 1, with
\* different commanders, and both records are in the returned weeklyData.
C3_Witness ==
  /\ Returned
  /\ \E i, j \in OutcomesOf(WEEKLY) :
       /\ i < j
       /\ WithRank(results[i].extracted, 1) # <<>>
       /\ WithRank(results[j].extracted, 1) # <<>>
       /\ WithRank(results[i].extracted, 1) # WithRank(results[j].extracted, 1)
  /\ Len(WithRank(ReturnedWeek.weeklyData, 1)) >= 2

C5_SuccessesOnly ==
  Returned =>
    LET week == ReturnedWeek
        CarriedBy(e, L) == \E i \in OutcomesOf(L) : CountIn(results[i].extracted, e) > 0
    IN  /\ extractedData.metadata.totalScreenshots =
             Cardinality({i \in 1..Len(results) : results[i].success})
        /\ extractedData.metadata.totalWeeks = 1
        /\ Len(extractedData.weeks) = 1
        /\ \A b \in 1..Len(week.dailyData) : \A k \in 1..Len(week.dailyData[b].entries) :
             CarriedBy(week.dailyData[b].entries[k], week.dailyData[b].day)
        /\ \A k \in 1..Len(week.weeklyData) : CarriedBy(week.weeklyData[k], WEEKLY)

\* C5 witness: a batch of a failed outcome that carries a record and a
\* successful outcome that does not carry it has been aggregated.
C5_Witness ==
  /\ Returned
  /\ \E i, j \in 1..Len(results) :
       /\ ~results[i].success /\ results[i].extracted # <<>>
       /\ results[j].success
       /\ CountIn(results[j].extracted, results[i].extracted[1]) = 0
       /\ normalizeDayName(results[j].file.day) = normalizeDayName(results[i].file.day)
  /\ extractedData.metadata.totalScreenshots < Len(results)

(***************************************************************************)
(* Claims about the exporter (SpecExport).                                 *)
(***************************************************************************)
ExportFinished == expPc \in {"returned", "threw"}

\* The period exportData exports: the last week of the data.
ExportedWeek == extractedData.weeks[Len(extractedData.weeks)]

DailyLabels(week) == [i \in 1..Len(week.dailyData) |-> week.dailyData[i].day]

SheetNames(file) == [i \in 1..Len(file.tables) |-> file.tables[i].name]

FilePaths == [i \in 1..Len(files) |-> files[i].path]

SummaryMetrics ==
  <<"Week Number", "Week Date", "Days Tracked", "Total Daily Entries", "Weekly Entries">>

ThrewEmptyData ==
  expPc = "threw" /\ exportResult = "No data to export - both daily and weekly data are empty"

\* C6: for every period that holds a bucket, the workbook export writes one
\* sheet per daily bucket, named by its label in bucket order, then a Weekly
\* sheet iff the summary bucket is non-empty, then a Summary sheet of the five
\* metric rows; a period with daily buckets and an empty summary bucket is
\* exported successfully.
C6_WorkbookLayout ==
  (/\ ExportFinished
   /\ exportOptions.format = "xlsx"
   /\ (Len(ExportedWeek.dailyData) > 0 \/ Len(ExportedWeek.weeklyData) > 0)) =>
    /\ expPc = "returned"
    /\ Len(files) = 1
    /\ SheetNames(files[1]) =
         DailyLabels(ExportedWeek)
           \o (IF Len(ExportedWeek.weeklyData) > 0 THEN <<"Weekly">> ELSE <<>>)
           \o <<"Summary">>
    /\ LET summary == files[1].tables[Len(files[1].tables)]
       IN  [i \in 1..Len(summary.rows) |-> summary.rows[i].Metric] = SummaryMetrics

\* C7: for csv and xlsx, exportData fails with the empty-data error iff the
\* daily bucket list and the summary bucket are both empty; for json never.
C7_EmptyDataIffBothEmpty ==
  ExportFinished =>
    LET bothEmpty == Len(ExportedWeek.dailyData) = 0 /\ Len(ExportedWeek.weeklyData) = 0
    IN  /\ exportOptions.format \in {"csv", "xlsx"} => (ThrewEmptyData <=> bothEmpty)
        /\ exportOptions.format = "json" => ~ThrewEmptyData

\* C8: the workbook export of a period with no daily bucket and a non-empty
\* summary bucket succeeds with exactly two sheets, Weekly then Summary.
C8_WeeklyOnlyWorkbook ==
  (/\ ExportFinished
   /\ exportOptions.format = "xlsx"
   /\ Len(ExportedWeek.dailyData) = 0
   /\ Len(ExportedWeek.weeklyData) > 0) =>
    /\ expPc = "returned"
    /\ Len(files) = 1
    /\ files[1].format = "xlsx"
    /\ SheetNames(files[1]) = <<"Weekly", "Summary">>
    /\ Len(files[1].tables[1].rows) = Len(ExportedWeek.weeklyData)

\* C8 witness: such a period has been exported as a workbook.
C8_Witness ==
  /\ expPc = "returned"
  /\ exportOptions.format = "xlsx"
  /\ Len(ExportedWeek.dailyData) = 0
  /\ Len(ExportedWeek.weeklyData) > 0
  /\ Len(files) = 1

\* The directory and base name the flat-table files of this call start with,
\* for each output path of the inputs: the given one when its file name holds
\* "_20", otherwise week<N>_<today> in the same directory.
C9_ExpectedPrefix ==
  LET today == SplitFirst(Instants[clock], "T")
  IN  CASE exportOptions.outputPath = "results/week3_2025-06-30.csv" -> "results/week3_2025-06-30"
        [] exportOptions.outputPath = "out/report.xlsx" -> "out/week3_" \o today
        [] exportOptions.outputPath = "report" -> "week3_" \o today
        [] exportOptions.outputPath = "run_2025/report.json" -> "run_2025/week3_" \o today

\* C9: the flat-table export writes one file <base>_<label>.csv per daily
\* bucket, in bucket order, then <base>_Weekly.csv iff the summary bucket is
\* non-empty, and nothing else; with no daily bucket and a non-empty summary
\* it writes the Weekly file only; the count it reports is the number of files.
C9_CsvFileSet ==
  (ExportFinished /\ exportOptions.format = "csv") =>
    LET week == ExportedWeek
        expected ==
          [i \in 1..Len(week.dailyData) |->
             C9_ExpectedPrefix \o "_" \o week.dailyData[i].day \o ".csv"]
            \o (IF Len(week.weeklyData) > 0 THEN <<C9_ExpectedPrefix \o "_Weekly.csv">> ELSE <<>>)
    IN  /\ FilePaths = expected
        /\ \A i \in 1..Len(files) : files[i].format = "csv"
        /\ (Len(week.dailyData) > 0 \/ Len(week.weeklyData) > 0) =>
             /\ expPc = "returned"
             /\ exportResult = "Exported week 3 to " \o NatToString(Len(files)) \o " CSV files"
        /\ \A i \in 1..Len(week.dailyData) :
             Len(files[i].tables[1].rows) = Len(week.dailyData[i].entries)

\* C9 witness: a period with no daily bucket and a non-empty summary bucket
\* has been exported as the single file <base>_Weekly.csv.
C9_Witness ==
  /\ expPc = "returned"
  /\ exportOptions.format = "csv"
  /\ Len(ExportedWeek.dailyData) = 0
  /\ Len(ExportedWeek.weeklyData) > 0
  /\ FilePaths = <<"results/week3_2025-06-30_Weekly.csv">>


(***************************************************************************)
(* Inputs of the command line's specification.                             *)
(***************************************************************************)
File(name) == [name |-> name, isDir |-> FALSE, entries |-> <<>>]

Dir(name, entries) == [name |-> name, isDir |-> TRUE, entries |-> entries]

Tree(inputPath, entries) == [path |-> inputPath, exists |-> TRUE, entries |-> entries]

CliTrees ==
  { \* two weeks below the input path, listed out of order
    Tree("shots",
         <<Dir("week10", <<Dir("Weekly", <<File("w.png")>>),
                           Dir("monday", <<File("b.jpg"), File("a.png")>>)>>),
           Dir("week2", <<Dir("Monday", <<File("a.png")>>)>>),
           File("week11")>>),
    \* the input path is the week; only weekly screenshots
    Tree("data/week3", <<Dir("Weekly", <<File("w.png")>>)>>),
    \* the input path is the week; only daily screenshots
    Tree("data/week3", <<Dir("Tuesday", <<File("a.PNG"), File("notes.txt")>>)>>),
    \* no directory at the input path
    [path |-> "missing", exists |-> FALSE, entries |-> <<>>],
    \* no week below the input path
    Tree("shots", <<File("week1"), Dir("other", <<>>)>>),
    \* a day without images
    Tree("week3", <<Dir("Monday", <<>>), Dir("Weekly", <<File("w.png")>>)>>),
    \* a week without days
    Tree("week4", <<Dir("misc", <<File("a.png")>>)>>) }

CliFormats == {"json", "csv", "xlsx", "pdf"}

\* Config.delayBetweenRequests: none, or its default.
CliDelays == {0, minDelay}

InitCli ==
  /\ clock = 1
  /\ results = <<>>
  /\ aggPc = "idle"
  /\ successfulResults = <<>>
  /\ foldIdx = 1
  /\ weekData = EmptyWeek
  /\ extractedData = NoData
  /\ aggError = ""
  /\ ExportIdle
  /\ tree \in CliTrees
  /\ options \in [format : CliFormats, dryRun : BOOLEAN, apiKey : BOOLEAN,
                   delayBetweenRequests : CliDelays, weeklyOnly : {FALSE}]
  /\ cliPc = "start"
  /\ screenshots = <<>>
  /\ shotIdx = 1
  /\ cliResults = <<>>
  /\ requestCount = 0
  /\ backupPath = ""
  /\ backupSaved = FALSE
  /\ console = <<>>
  /\ exitCode = 0
  /\ AiServiceNew
  /\ ResolveIdle

NextCli ==
  \/ CliValidate
  \/ CliScan
  \/ CliDryRun
  \/ CliInitService
  \/ CliProcessScreenshot
  \/ CliProcessResults
  \/ ProcessResultsBegin
  \/ ProcessResultsFold
  \/ ProcessResultsEnd
  \/ CliBackup
  \/ ExportData
  \/ CliFinish

\* One run of the command line action on an arbitrary tree and options.
SpecCli == InitCli /\ [][NextCli]_vars

(***************************************************************************)
(* Claims about the command line action (SpecCli).                         *)
(***************************************************************************)
Printed(line) == \E i \in 1..Len(console) : console[i] = line

ExportThrew == cliPc = "exited" /\ expPc = "threw"

\* C10: an export failure is surfaced as a failed run: whenever exportData
\* throws during the action, the process ends with a non-zero exit status and
\* does not reach the 'Processing Complete' summary.
C10_ExportFailureFailsRun ==
  ExportThrew => (exitCode # 0 /\ ~Printed("Processing Complete!"))

\* C10, as the code has it: whenever exportData throws during the action, the
\* failure is printed with its message and the path of the backup, the
\* 'Processing Complete' summary follows with the backup as its output path,
\* and the process ends with exit status 0.
C10_ExportFailureReported ==
  ExportThrew =>
    /\ exitCode = 0
    /\ Printed("Export failed: " \o exportResult)
    /\ Printed("But don't worry! Your data is safely backed up in: " \o backupPath)
    /\ Printed("Processing Complete!")
    /\ Printed("  Output path: " \o backupPath)
    /\ ~Printed("Processing failed")

\* A finished run whose export threw for want of data and wrote no file.
C10_Witness ==
  /\ ExportThrew
  /\ exitCode = 0
  /\ Printed("Processing Complete!")
  /\ exportResult = EmptyDataMessage
  /\ files = <<>>


\* C11: between any two consecutive requests sent to the AI service in one run
\* at least minDelay milliseconds elapse, whatever the successes and failures
\* of the requests, also for a request that follows a failed one.
C11_MinDelayBetweenRequests ==
  \A k \in 2..Len(sendTimes) : sendTimes[k] - sendTimes[k - 1] >= minDelay


(***************************************************************************)
(* processScreenshots on its own (SpecExtract): an arbitrary list of       *)
(* screenshots, every await of the loop completing.                        *)
(***************************************************************************)
ExtractFiles ==
  {ScreenshotFile("a.png", "week3", "Monday"), ScreenshotFile("w.png", "week3", "Weekly")}

ExtractLists == UNION {[1..n -> ExtractFiles] : n \in 0..MaxShots}

InitExtract ==
  /\ clock = 1
  /\ results = <<>>
  /\ aggPc = "idle"
  /\ successfulResults = <<>>
  /\ foldIdx = 1
  /\ weekData = EmptyWeek
  /\ extractedData = NoData
  /\ aggError = ""
  /\ ExportIdle
  /\ tree = [path |-> "", exists |-> FALSE, entries |-> <<>>]
  /\ \E delay \in CliDelays :
       options = [format |-> "json", dryRun |-> FALSE, apiKey |-> TRUE,
                  delayBetweenRequests |-> delay, weeklyOnly |-> FALSE]
  /\ cliPc = "processing"
  /\ screenshots \in ExtractLists
  /\ shotIdx = 1
  /\ cliResults = <<>>
  /\ requestCount = 0
  /\ backupPath = ""
  /\ backupSaved = FALSE
  /\ console = <<>>
  /\ exitCode = 0
  /\ AiServiceNew
  /\ ResolveIdle

NextExtract == CliProcessScreenshot \/ CliProcessResults

SpecExtract == InitExtract /\ [][NextExtract]_vars /\ WF_vars(NextExtract)

\* The outcomes pushed so far are those of the first files, in order, and a
\* failed outcome carries no record.
OutcomesMatchFiles ==
  /\ Len(cliResults) = shotIdx - 1
  /\ Len(cliResults) <= Len(screenshots)
  /\ \A i \in 1..Len(cliResults) :
       /\ cliResults[i].file = screenshots[i]
       /\ ~cliResults[i].success => cliResults[i].extracted = <<>>

\* processScreenshots has returned one outcome per screenshot.
ExtractReturned ==
  /\ cliPc = "aggregating"
  /\ results = cliResults
  /\ Len(results) = Len(screenshots)

\* C12: a failure of one file never aborts the batch: for every list of
\* screenshots and every pattern of successes and failures processScreenshots
\* terminates and returns exactly one outcome per screenshot, in input order,
\* a failed one with success = false and no record, the files after a failure
\* being attempted all the same.
C12_OneOutcomePerFile == [](OutcomesMatchFiles) /\ <>[](ExtractReturned /\ OutcomesMatchFiles)

\* processScreenshots has returned a failed outcome followed by a successful one.
C12_Witness ==
  /\ ExtractReturned
  /\ Len(results) = 2
  /\ ~results[1].success /\ results[1].extracted = <<>>
  /\ results[2].success /\ Len(results[2].extracted) > 0


(***************************************************************************)
(* Inputs of the resolver's specification (SpecResolve): the two functions *)
(* of FileSystemUtils, each called once on an arbitrary tree.              *)
(***************************************************************************)
\* Listings of a week directory.
DayListings ==
  { \* two spellings of one day
    <<Dir("monday", <<File("a.png"), File("c.png")>>), Dir("Monday", <<File("b.png")>>)>>,
    \* days and files listed out of order
    <<Dir("Weekly", <<File("w.png")>>), Dir("Monday", <<File("b.jpg"), File("a.png")>>)>>,
    \* a directory that is no day, a file that is no image
    <<Dir("misc", <<File("x.png")>>), Dir("Tuesday", <<File("a.PNG"), File("notes.txt")>>)>>,
    \* upper-case names
    <<Dir("SATURDAY", <<File("B.png"), File("a.png")>>), Dir("WEEKLY", <<File("w.webp")>>)>>,
    \* a day without images, a file with the name of a day
    <<File("Monday"), Dir("Friday", <<>>)>>,
    \* no day at all
    <<Dir("misc", <<File("x.png")>>)>>,
    <<>> }

\* Input paths whose base name may be a week, each with every listing.
WeekRoots == {"data/week3", "WEEK12", "week", "in/Week"}

WeekNames == {"week1", "Week1", "week01", "week2", "week10", "week", "weekly", "week3x"}

OneDay == <<Dir("Monday", <<File("a.png")>>)>>

\* The entries an input path that is no week may list: week directories of
\* every name, a file with the name of a week, and a week without days.
RootEntries ==
  {Dir(n, OneDay) : n \in WeekNames}
    \cup {File("week99"), Dir("week20", <<Dir("misc", <<File("x.png")>>)>>)}

\* The listings of such an input path: up to two distinct entries, in either
\* order.
RootListings ==
  {<<>>} \cup {<<e>> : e \in RootEntries}
         \cup UNION {{<<e, f>> : f \in RootEntries \ {e}} : e \in RootEntries}

ResolveTrees ==
  {[path |-> "missing", exists |-> FALSE, entries |-> <<>>]}
    \cup {Tree(r, l) : r \in WeekRoots, l \in DayListings}
    \cup {Tree("shots", l) : l \in RootListings}

InitResolve ==
  /\ clock = 1
  /\ results = <<>>
  /\ aggPc = "idle"
  /\ successfulResults = <<>>
  /\ foldIdx = 1
  /\ weekData = EmptyWeek
  /\ extractedData = NoData
  /\ aggError = ""
  /\ ExportIdle
  /\ tree \in ResolveTrees
  /\ options = [format |-> "json", dryRun |-> FALSE, apiKey |-> FALSE,
                delayBetweenRequests |-> minDelay, weeklyOnly |-> FALSE]
  /\ cliPc = "idle"
  /\ screenshots = <<>>
  /\ shotIdx = 1
  /\ cliResults = <<>>
  /\ requestCount = 0
  /\ backupPath = ""
  /\ backupSaved = FALSE
  /\ console = <<>>
  /\ exitCode = 0
  /\ AiServiceNew
  /\ resPc \in {"scan", "validate"}
  /\ scanned = NotScanned
  /\ validated = NotValidated
  /\ valPc = "idle"
  /\ weekValidation = NotValidated

NextResolve == ScanScreenshotDirectory \/ ValidateDirectoryStructure \/ ScanValidated

SpecResolve == InitResolve /\ [][NextResolve]_vars

(***************************************************************************)
(* Claims about the resolver (SpecResolve).                                *)
(***************************************************************************)
ScanDone == resPc = "scanned"

ScanReturned == ScanDone /\ ~scanned.threw

\* The position of a day name in the fixed category order.
CategoryOf(day) == dayOrder(normalizeDay(day))

\* a comes before b: an earlier category, or the same category and a file
\* name that is not lexically greater.
InScanOrder(a, b) ==
  \/ CategoryOf(a.day) < CategoryOf(b.day)
  \/ CategoryOf(a.day) = CategoryOf(b.day) /\ ~StrLess(b.fileName, a.fileName)

\* C13: the list returned by scanScreenshotDirectory is sorted by category
\* (Monday, Tuesday, Wednesday, Thursday, Friday, Saturday, Weekly) and within
\* one category lexically ascending by file name, also when several directory
\* names normalize to one category.
C13_ScanSorted ==
  ScanReturned =>
    \A i \in 1..(Len(scanned.screenshots) - 1) :
      InScanOrder(scanned.screenshots[i], scanned.screenshots[i + 1])


\* The names of the directories of the root that match the week pattern.
WeekCandidates == {n \in {tree.entries[i].name : i \in 1..Len(tree.entries)} :
                     /\ isWeekDirectory(n)
                     /\ \E i \in 1..Len(tree.entries) :
                          tree.entries[i].name = n /\ tree.entries[i].isDir}

\* The scan went through findMostRecentWeekDir and returned screenshots.
WeekSelected ==
  /\ ScanReturned
  /\ ~isWeekDirectory(basename(tree.path))
  /\ Len(scanned.screenshots) > 0

\* m does not win over n: a smaller number, or the same number and a name that
\* is lexically smaller.
YieldsTo(m, n) ==
  \/ extractWeekNumber(m) < extractWeekNumber(n)
  \/ extractWeekNumber(m) = extractWeekNumber(n) /\ StrLess(m, n)

\* C14: when the base name of the root is no week name, the week selected is
\* the matching subdirectory with the largest number; among names of the same
\* number the lexical order of the names decides, whatever the order of the
\* directory listing.
C14_WeekSelection ==
  WeekSelected =>
    LET chosen == scanned.screenshots[1].week
    IN  /\ chosen \in WeekCandidates
        /\ \A m \in WeekCandidates \ {chosen} : YieldsTo(m, chosen)


\* The scan failed for want of a week directory.
NoWeekFound == scanned.threw /\ scanned.error = "Failed to scan directory: " \o NoWeekMessage

\* The base name of the root is 'week' in some letter case.
RootIsBareWeek == tree.exists /\ ToLowerCase(basename(tree.path)) = "week"

\* The root is no week and 'week', in some letter case, is the only directory
\* of the root whose name is 'week' followed by digits or by nothing.
OnlyBareWeekBelow ==
  /\ tree.exists
  /\ ~isWeekDirectory(basename(tree.path))
  /\ ~RootIsBareWeek
  /\ WeekCandidates = {}
  /\ \E i \in 1..Len(tree.entries) :
       tree.entries[i].isDir /\ ToLowerCase(tree.entries[i].name) = "week"

\* C15: a directory named 'week' without digits, in any letter case, is a week
\* directory: the scan accepts it as the base name of the root or as the only
\* matching subdirectory, and does not fail with 'No week directory found'.
C15_WeekWithoutDigits ==
  (ScanDone /\ (RootIsBareWeek \/ OnlyBareWeekBelow)) =>
    /\ ~NoWeekFound
    /\ (ScanReturned /\ Len(scanned.screenshots) > 0) =>
         ToLowerCase(scanned.screenshots[1].week) = "week"


\* The entries of a listing that are directories named, up to letter case, by
\* one of the seven category labels.
CategoryDirs(entries) ==
  {i \in 1..Len(entries) :
     /\ entries[i].isDir
     /\ \E k \in 1..Len(DayOfWeek) : ToLowerCase(entries[i].name) = ToLowerCase(DayOfWeek[k])}

\* No week directory can be identified: the root is none and lists none.
NoWeekIdentified == ~isWeekDirectory(basename(tree.path)) /\ WeekCandidates = {}

\* The listing of the week directory the scan selects.
SelectedListing == findWeek(tree).entries

ValidateDone == resPc = "validated"

\* A category directory of the selected week that lists no image.
EmptyCategoryDirs ==
  {k \in CategoryDirs(SelectedListing) :
     \A i \in 1..Len(SelectedListing[k].entries) :
       ~isImageFile(SelectedListing[k].entries[i].name)}

\* What validateDirectoryStructure is to report, not to throw.
ExpectedAbsence ==
  \/ ~tree.exists
  \/ tree.exists /\ NoWeekIdentified
  \/ tree.exists /\ ~NoWeekIdentified /\ CategoryDirs(SelectedListing) = {}
  \/ tree.exists /\ ~NoWeekIdentified /\ EmptyCategoryDirs # {}

\* C17: validateDirectoryStructure returns a result rather than throwing; for
\* a missing root, a root without a week, a week without category directories
\* or a category directory without images the result has valid = false and at
\* least one issue; in every result valid is true exactly when there is no
\* issue.
C17_ValidateReports ==
  ValidateDone =>
    /\ validated.valid <=> Len(validated.issues) = 0
    /\ ExpectedAbsence => (~validated.valid /\ Len(validated.issues) >= 1)
    /\ ~ExpectedAbsence => validated.valid

\* A result for a week with a category directory that holds no image.
C17_Witness ==
  /\ ValidateDone
  /\ tree.exists /\ ~NoWeekIdentified /\ EmptyCategoryDirs # {}
  /\ ~validated.valid


(***************************************************************************)
(* validateWeekData on its own (SpecValidate): called once on an arbitrary *)
(* week.                                                                   *)
(***************************************************************************)
ValidateLabels == {"Monday", "Weekly", "Sunday", "monday", ""}

ValidateEntries ==
  {<<>>,
   <<RankingEntry(1, "A", 100)>>,
   <<RankingEntry(1, "A", 100), RankingEntry(2, "B", 90)>>,
   <<RankingEntry(1, "A", 100), RankingEntry(1, "B", 90)>>}

ValidateBuckets == {[day |-> d, entries |-> e] : d \in ValidateLabels, e \in ValidateEntries}

ValidateDaily == UNION {[1..n -> ValidateBuckets] : n \in 0..2}

ValidateWeeks ==
  [weekNumber : {0 - 1, 0, 3}, weekDate : {"", "2024-01-15"}, dailyData : ValidateDaily,
   weeklyData : {<<>>, <<RankingEntry(1, "A", 100)>>}]

InitValidate ==
  /\ clock = 1
  /\ results = <<>>
  /\ aggPc = "idle"
  /\ successfulResults = <<>>
  /\ foldIdx = 1
  /\ weekData = EmptyWeek
  /\ \E w \in ValidateWeeks :
       extractedData = [weeks |-> <<w>>,
                        metadata |-> [totalWeeks |-> 1, totalScreenshots |-> 1,
                                      extractedAt |-> Instants[1]]]
  /\ aggError = ""
  /\ ExportIdle
  /\ tree = [path |-> "", exists |-> FALSE, entries |-> <<>>]
  /\ options = [format |-> "json", dryRun |-> FALSE, apiKey |-> FALSE,
                delayBetweenRequests |-> minDelay, weeklyOnly |-> FALSE]
  /\ cliPc = "idle"
  /\ screenshots = <<>>
  /\ shotIdx = 1
  /\ cliResults = <<>>
  /\ requestCount = 0
  /\ backupPath = ""
  /\ backupSaved = FALSE
  /\ console = <<>>
  /\ exitCode = 0
  /\ AiServiceNew
  /\ resPc = "idle"
  /\ scanned = NotScanned
  /\ validated = NotValidated
  /\ valPc = "called"
  /\ weekValidation = NotValidated

NextValidate == ValidateWeekData

SpecValidate == InitValidate /\ [][NextValidate]_vars

(***************************************************************************)
(* Claims about validateWeekData (SpecValidate).                           *)
(***************************************************************************)
ValidatedWeek == extractedData.weeks[1]

Reported(message) ==
  \E i \in 1..Len(weekValidation.issues) : weekValidation.issues[i] = message

CanonicalLabels == {"Monday", "Tuesday", "Wednesday", "Thursday", "Friday", "Saturday", "Weekly"}

\* The buckets of the validated week that fail a check.
UnknownLabelBuckets ==
  {k \in 1..Len(ValidatedWeek.dailyData) : ValidatedWeek.dailyData[k].day \notin CanonicalLabels}

EmptyBuckets ==
  {k \in 1..Len(ValidatedWeek.dailyData) : Len(ValidatedWeek.dailyData[k].entries) = 0}

DuplicateRankBuckets ==
  {k \in 1..Len(ValidatedWeek.dailyData) :
     \E i, j \in 1..Len(ValidatedWeek.dailyData[k].entries) :
       i # j /\ ValidatedWeek.dailyData[k].entries[i].rank
                  = ValidatedWeek.dailyData[k].entries[j].rank}

\* The number of checks the validated week fails.
FailedChecks ==
  (IF ValidatedWeek.weekNumber <= 0 THEN 1 ELSE 0)
    + (IF ValidatedWeek.weekDate = "" THEN 1 ELSE 0)
    + (IF Len(ValidatedWeek.dailyData) = 0 THEN 1 ELSE 0)
    + Cardinality(UnknownLabelBuckets) + Cardinality(EmptyBuckets)
    + Cardinality(DuplicateRankBuckets)

\* C18: validateWeekData returns valid = true exactly when the week number is
\* positive, the week date is not empty, there is a daily bucket, every bucket
\* label is one of the seven canonical labels, every bucket has a record and
\* no bucket has two records of one rank; every check that fails adds its own
\* message, whatever the other checks do.
C18_ValidateWeekData ==
  valPc = "returned" =>
    /\ weekValidation.valid <=> FailedChecks = 0
    /\ Len(weekValidation.issues) = FailedChecks
    /\ ValidatedWeek.weekNumber <= 0 <=>
         Reported("Invalid week number: " \o NumberToString(ValidatedWeek.weekNumber))
    /\ ValidatedWeek.weekDate = "" <=> Reported("Missing week date")
    /\ Len(ValidatedWeek.dailyData) = 0 <=> Reported("No daily data found")
    /\ \A k \in 1..Len(ValidatedWeek.dailyData) :
         LET label == ValidatedWeek.dailyData[k].day
         IN  /\ k \in UnknownLabelBuckets => Reported("Invalid day name: " \o label)
             /\ k \in EmptyBuckets => Reported("No entries found for day: " \o label)
             /\ k \in DuplicateRankBuckets => Reported("Duplicate ranks found for day: " \o label)

\* Week number 0 together with a bucket of unknown label: both are reported.
C18_Witness ==
  /\ valPc = "returned"
  /\ ValidatedWeek.weekNumber = 0
  /\ UnknownLabelBuckets # {}
  /\ Reported("Invalid week number: 0")
  /\ Reported("Invalid day name: Sunday")
  /\ ~weekValidation.valid

(***************************************************************************)
(* Claims about the column headers of the exported tables (SpecExport).    *)
(***************************************************************************)
\* The daily and Weekly tables of the files written: every table of a flat
\* file, and every sheet of a workbook but the summary.
RankingTables ==
  UNION {{files[i].tables[j] : j \in {k \in 1..Len(files[i].tables) :
                                        files[i].tables[k].name # "Summary"}} :
           i \in {k \in 1..Len(files) : files[k].format \in {"csv", "xlsx"}}}

FlatTables ==
  UNION {{files[i].tables[j] : j \in 1..Len(files[i].tables)} :
           i \in {k \in 1..Len(files) : files[k].format = "csv"}}

SheetTables ==
  UNION {{files[i].tables[j] : j \in {k \in 1..Len(files[i].tables) :
                                        files[i].tables[k].name # "Summary"}} :
           i \in {k \in 1..Len(files) : files[k].format = "xlsx"}}

\* C19 as stated: every daily and Weekly table written by the flat-table
\* export and by the workbook export has exactly the three column headers
\* 'Rank', 'Commander Name', 'Points', in that order.
C19_ThreeTitledColumns ==
  ExportFinished =>
    \A t \in RankingTables : t.header = <<"Rank", "Commander Name", "Points">>

\* C19: every daily and Weekly table of the flat-table export has the three
\* column headers 'Rank', 'Commander Name', 'Points', in that order; a daily
\* or Weekly sheet of the workbook export has the three column headers
\* 'Rank', 'CommanderName', 'Points', in that order, when it holds records,
\* and no header row when it holds none.
C19_TableHeaders ==
  ExportFinished =>
    /\ \A t \in FlatTables : t.header = <<"Rank", "Commander Name", "Points">>
    /\ \A t \in SheetTables :
         t.header = IF Len(t.rows) = 0 THEN <<>>
                    ELSE <<"Rank", "CommanderName", "Points">>

\* A workbook was written with a daily sheet of records, a daily sheet
\* without records and its Weekly sheet.
C19_Witness ==
  /\ expPc = "returned"
  /\ \E t \in SheetTables : t.name = "Weekly" /\ Len(t.rows) > 0
  /\ \E t \in SheetTables : t.name # "Weekly" /\ Len(t.rows) > 0
  /\ \E t \in SheetTables : t.name # "Weekly" /\ Len(t.rows) = 0

(***************************************************************************)
(* Claims about the document export (SpecExport).  The written text is     *)
(* read back as JSON.parse reads it: objects become functions of their     *)
(* keys, arrays sequences, numbers integers, strings strings.              *)
(***************************************************************************)
Parsed(value, next) == [ok |-> TRUE, v |-> value, p |-> next]

SyntaxError(at) == [ok |-> FALSE, v |-> <<>>, p |-> at]

Ch(s, i) == IF i \in 1..Len(s) THEN SubSeq(s, i, i) ELSE ""

RECURSIVE skipWs(_, _)
skipWs(s, i) == IF Ch(s, i) \in {" ", "\n"} THEN skipWs(s, i + 1) ELSE i

\* The string whose opening quote was read, up to its closing quote.
RECURSIVE readString(_, _, _)
readString(s, i, acc) ==
  LET c == Ch(s, i)
      d == Ch(s, i + 1)
  IN  IF c = "\"" THEN Parsed(acc, i + 1)
      ELSE IF c \in {"", "\n"} THEN SyntaxError(i)
      ELSE IF c # "\\" THEN readString(s, i + 1, acc \o c)
      ELSE IF d = "n" THEN readString(s, i + 2, acc \o "\n")
      ELSE IF d \in {"\"", "\\"} THEN readString(s, i + 2, acc \o d)
      ELSE SyntaxError(i)

RECURSIVE endOfDigits(_, _)
endOfDigits(s, i) == IF IsDigit(Ch(s, i)) THEN endOfDigits(s, i + 1) ELSE i

readNumber(s, i) ==
  LET from == IF Ch(s, i) = "-" THEN i + 1 ELSE i
      to == endOfDigits(s, from)
  IN  IF to = from THEN SyntaxError(i)
      ELSE Parsed(IF from = i THEN ParseInt(SubSeq(s, from, to - 1))
                  ELSE 0 - ParseInt(SubSeq(s, from, to - 1)), to)

RECURSIVE readValue(_, _), readMembers(_, _, _), readElements(_, _, _)
readValue(s, i) ==
  LET j == skipWs(s, i)
      c == Ch(s, j)
      k == skipWs(s, j + 1)
  IN  IF c = "{"
      THEN IF Ch(s, k) = "}" THEN Parsed(<<>>, k + 1) ELSE readMembers(s, k, <<>>)
      ELSE IF c = "["
      THEN IF Ch(s, k) = "]" THEN Parsed(<<>>, k + 1) ELSE readElements(s, k, <<>>)
      ELSE IF c = "\"" THEN readString(s, j + 1, "")
      ELSE readNumber(s, j)

\* The members of an object from the quote of a key on; a key read again
\* replaces the earlier one.
readMembers(s, i, acc) ==
  IF Ch(s, i) # "\"" THEN SyntaxError(i)
  ELSE LET key == readString(s, i + 1, "")
           colon == skipWs(s, key.p)
       IN  IF ~key.ok \/ Ch(s, colon) # ":" THEN SyntaxError(colon)
           ELSE LET val == readValue(s, colon + 1)
                    after == skipWs(s, val.p)
                IN  IF ~val.ok THEN SyntaxError(val.p)
                    ELSE IF Ch(s, after) = ","
                    THEN readMembers(s, skipWs(s, after + 1), (key.v :> val.v) @@ acc)
                    ELSE IF Ch(s, after) = "}"
                    THEN Parsed((key.v :> val.v) @@ acc, after + 1)
                    ELSE SyntaxError(after)

readElements(s, i, acc) ==
  LET val == readValue(s, i)
      after == skipWs(s, val.p)
  IN  IF ~val.ok THEN SyntaxError(val.p)
      ELSE IF Ch(s, after) = "," THEN readElements(s, after + 1, Append(acc, val.v))
      ELSE IF Ch(s, after) = "]" THEN Parsed(Append(acc, val.v), after + 1)
      ELSE SyntaxError(after)

\* The whole text as one value.
JsonParse(text) ==
  LET r == readValue(text, 1)
  IN  IF r.ok /\ skipWs(text, r.p) = Len(text) + 1 THEN r ELSE SyntaxError(r.p)

DocumentExported == expPc = "returned" /\ exportOptions.format = "json"

EnvelopeKeys(weekKey) ==
  IF exportOptions.includeMetadata THEN {weekKey, "metadata"} ELSE {weekKey}

\* The single document written parses to an object of the envelope's keys
\* whose value under weekKey equals the exported period.
EnvelopeUnder(weekKey) ==
  /\ Len(files) = 1
  /\ files[1].format = "json"
  /\ LET parsed == JsonParse(files[1].text)
     IN  /\ parsed.ok
         /\ DOMAIN parsed.v = EnvelopeKeys(weekKey)
         /\ parsed.v[weekKey] = ExportedWeek

\* C20 as stated: the document export writes a single document whose top level
\* has the key 'period' holding the full period and the key 'metadata' if
\* and only if includeMetadata is set, and parsing the document back yields
\* a period equal field-for-field to the exported one.
C20_PeriodEnvelope == DocumentExported => EnvelopeUnder("period")

\* C20: the document export writes a single document whose top level has the
\* key 'week' holding the full period and the key 'metadata' if and only if
\* includeMetadata is set, and parsing the document back yields a period
\* equal field-for-field to the exported one.
C20_WeekEnvelope == DocumentExported => EnvelopeUnder("week")

\* A period with daily records and a summary record whose name holds a
\* double quote and a backslash was exported as a document with metadata.
C20_Witness ==
  /\ DocumentExported
  /\ exportOptions.includeMetadata
  /\ \E i \in 1..Len(ExportedWeek.dailyData) : Len(ExportedWeek.dailyData[i].entries) > 1
  /\ \E i \in 1..Len(ExportedWeek.weeklyData) :
       ExportedWeek.weeklyData[i].commanderName = "B \"2\" \\o/"
  /\ "metadata" \in DOMAIN JsonParse(files[1].text).v

(***************************************************************************)
(* Claims about the path the export writes to (SpecExport).                *)
(***************************************************************************)
\* The date part of the instant at which exportData ran.
ExportDay == SplitFirst(Instants[clock], "T")

FileNameDated == Includes(basename(exportOptions.outputPath), "_20")

\* The path is the caller's when its file name holds "_20", and otherwise
\* lies in the caller's directory under week<N>_<date>.<format>.
IsDerivedPath(path) ==
  IF FileNameDated THEN path = exportOptions.outputPath
  ELSE /\ dirname(path) = dirname(exportOptions.outputPath)
       /\ basename(path) = "week" \o NatToString(ExportedWeek.weekNumber) \o "_"
                             \o ExportDay \o "." \o exportOptions.format

\* The path is the derived one with _<label> put before a '.csv' ending.
IsLabelledPath(path, label) ==
  LET stem == IF FileNameDated THEN basenameExt(exportOptions.outputPath, ".csv")
              ELSE "week" \o NatToString(ExportedWeek.weekNumber) \o "_" \o ExportDay
  IN  /\ dirname(path) = dirname(exportOptions.outputPath)
      /\ basename(path) = stem \o "_" \o label \o ".csv"

\* C21 as stated: every file the export writes is at the caller's path when
\* the file name of that path contains '_20', and otherwise in the same
\* directory under week<N>_<today's date>.<format>.
C21_WritesToDerivedPath ==
  expPc = "returned" => \A i \in 1..Len(files) : IsDerivedPath(files[i].path)

\* C21: the document export and the workbook export write their one file at
\* the caller's path when the file name of that path contains '_20', and
\* otherwise in the same directory under week<N>_<today's date>.<format>;
\* the flat-table export writes each of its files at that path with
\* _<label> put before the '.csv' ending.
C21_OutputPathDerivation ==
  expPc = "returned" =>
    /\ exportOptions.format \in {"json", "xlsx"} =>
         Len(files) = 1 /\ IsDerivedPath(files[1].path)
    /\ exportOptions.format = "csv" =>
         \A i \in 1..Len(files) :
           IsLabelledPath(files[i].path,
                          IF i <= Len(ExportedWeek.dailyData)
                          THEN ExportedWeek.dailyData[i].day ELSE "Weekly")

\* A document was written for a path whose directory, but not whose file
\* name, holds '_20'.
C21_Witness ==
  /\ expPc = "returned"
  /\ exportOptions.format = "json"
  /\ Includes(dirname(exportOptions.outputPath), "_20")
  /\ ~FileNameDated
  /\ FilePaths = <<"run_2025/week3_" \o ExportDay \o ".json">>

(***************************************************************************)
(* Claims about a dry run of the command line action (SpecCli).            *)
(***************************************************************************)
\* The last n lines printed.
LastLines(n) == SubSeq(console, Len(console) - n + 1, Len(console))

\* C22: in a run started with --dry-run no request is sent to the AI
\* service, no image file is read, no outcome is aggregated and no backup or
\* export file is written; once the screenshots are found, the action ends
\* with status 0 after listing them, one line per screenshot.
C22_DryRunTouchesNothing ==
  options.dryRun =>
    /\ sendTimes = <<>>
    /\ requestCount = 0
    /\ shotIdx = 1
    /\ cliResults = <<>>
    /\ aggPc = "idle"
    /\ ~backupSaved
    /\ backupPath = ""
    /\ expPc = "idle"
    /\ files = <<>>
    /\ cliPc \notin {"processing", "aggregating", "exporting"}
    /\ (cliPc = "exited" /\ screenshots # <<>>) =>
         /\ exitCode = 0
         /\ Len(console) > Len(screenshots)
         /\ LastLines(Len(screenshots)) = DryRunLines

\* A dry run with an API key has listed three screenshots and ended.
C22_Witness ==
  /\ options.dryRun
  /\ options.apiKey
  /\ cliPc = "exited"
  /\ Len(screenshots) = 3
  /\ Printed("  3. week10/Weekly/w.png")

(***************************************************************************)
(* The command line action started with -w/--weekly-only (index.ts line    *)
(* 29): the runs of SpecCli with the option set, for the document format   *)
(* and the default delay.                                                  *)
(***************************************************************************)
InitWeeklyOnly ==
  /\ clock = 1
  /\ results = <<>>
  /\ aggPc = "idle"
  /\ successfulResults = <<>>
  /\ foldIdx = 1
  /\ weekData = EmptyWeek
  /\ extractedData = NoData
  /\ aggError = ""
  /\ ExportIdle
  /\ tree \in CliTrees
  /\ options \in [format : {"json"}, dryRun : BOOLEAN, apiKey : BOOLEAN,
                   delayBetweenRequests : {minDelay}, weeklyOnly : {TRUE}]
  /\ cliPc = "start"
  /\ screenshots = <<>>
  /\ shotIdx = 1
  /\ cliResults = <<>>
  /\ requestCount = 0
  /\ backupPath = ""
  /\ backupSaved = FALSE
  /\ console = <<>>
  /\ exitCode = 0
  /\ AiServiceNew
  /\ ResolveIdle

SpecWeeklyOnly == InitWeeklyOnly /\ [][NextCli]_vars

\* C23: in a run started with -w/--weekly-only only screenshots of the
\* Weekly category are extracted and aggregated: every outcome of the
\* extraction belongs to a Weekly screenshot, and the result of processResults
\* has no daily bucket.
C23_WeeklyOnly ==
  options.weeklyOnly =>
    /\ \A i \in 1..Len(cliResults) : ToLowerCase(cliResults[i].file.day) = "weekly"
    /\ aggPc = "returned" => extractedData.weeks[1].dailyData = <<>>

(***************************************************************************)
(* Claims about the order of the stages of one run (SpecCli).              *)
(***************************************************************************)
\* The stages of the action in their order: validation, scan, the choice
\* after the scan, extraction, aggregation with validation of the week and
\* backup, export, and the end of the run.
StageOrder ==
  <<"start", "scan", "scanned", "processing", "aggregating", "exporting", "exited">>

StageOf(pc) == CHOOSE i \in 1..Len(StageOrder) : StageOrder[i] = pc

\* How far a call of processResults or exportData has got.
CallProgress(pc) ==
  CASE pc = "idle" -> 0
    [] pc = "called" -> 1
    [] pc = "folding" -> 2
    [] pc \in {"returned", "threw"} -> 3

OracleCalled == shotIdx > 1 \/ sendTimes # <<>> \/ cliResults # <<>>

\* In every state the stages reached so far are in order.
StagesInOrder ==
  /\ OracleCalled => /\ StageOf(cliPc) >= StageOf("processing")
                     /\ screenshots # <<>>
  /\ aggPc # "idle" => /\ StageOf(cliPc) >= StageOf("aggregating")
                        /\ shotIdx = Len(screenshots) + 1
                        /\ Len(cliResults) = Len(screenshots)
                        /\ results = cliResults
  /\ (Printed("Data validation issues found") \/ Printed("Data processing completed")) =>
       aggPc = "returned"
  /\ backupPath # "" => aggPc = "returned"
  /\ backupSaved => backupPath # ""
  /\ expPc # "idle" => /\ StageOf(cliPc) >= StageOf("exporting")
                        /\ backupPath # ""
                        /\ Printed("Data processing completed")
  /\ files # <<>> => expPc = "returned"

\* No step goes back to an earlier stage, calls processResults or exportData
\* again, or sends a request, adds an outcome or writes the backup after a
\* later stage has started.
StepsForward ==
  /\ StageOf(cliPc') >= StageOf(cliPc)
  /\ CallProgress(aggPc') >= CallProgress(aggPc)
  /\ CallProgress(expPc') >= CallProgress(expPc)
  /\ aggPc # "idle" => /\ sendTimes' = sendTimes
                        /\ cliResults' = cliResults
                        /\ results' = results
                        /\ screenshots' = screenshots
  /\ expPc # "idle" => /\ backupPath' = backupPath
                        /\ backupSaved' = backupSaved
                        /\ extractedData' = extractedData

\* C24: in one run of the action, validation and scanning complete before the
\* first oracle call, every oracle call completes before the single call of
\* processResults, validateWeekData runs after processResults, the backup is
\* attempted before the export, processResults and exportData are each
\* called at most once, and no earlier stage is re-entered.
C24_StageOrdering == [](StagesInOrder) /\ [][StepsForward]_vars

\* A run went through every stage: three oracle calls, aggregation, a saved
\* backup and a returned export.
C24_Witness ==
  /\ cliPc = "exited"
  /\ Len(sendTimes) = 3
  /\ aggPc = "returned"
  /\ backupSaved
  /\ expPc = "returned"
  /\ files # <<>>

(***************************************************************************)
(* processResults called once on outcomes of several period labels, for    *)
(* the period number of its result.                                        *)
(***************************************************************************)
WeekNumberLabels == {"week12", "Week12", "WEEK12", "week", "week3"}

WeekNumberOutcomes ==
  {ProcessingResult(ScreenshotFile("a.png", w, "Monday"), <<RankingEntry(1, "A", 100)>>, ok) :
     w \in WeekNumberLabels, ok \in BOOLEAN}

InitWeekNumber ==
  /\ clock = 1
  /\ results \in UNION {[1..n -> WeekNumberOutcomes] : n \in 0..MaxBatch}
  /\ aggPc = "called"
  /\ successfulResults = <<>>
  /\ foldIdx = 1
  /\ weekData = EmptyWeek
  /\ extractedData = NoData
  /\ aggError = ""
  /\ ExportIdle
  /\ CliIdle

SpecWeekNumber == InitWeekNumber /\ [][NextAgg]_vars

\* The number each label of the inputs stands for.
NumberOfLabel ==
  [w \in WeekNumberLabels |->
     CASE w \in {"week12", "Week12", "WEEK12"} -> 12
       [] w = "week3" -> 3
       [] w = "week" -> 0]

FirstSuccess == CHOOSE i \in 1..Len(results) :
                  results[i].success /\ \A j \in 1..(i - 1) : ~results[j].success

\* C25: the period number of the result is the number of the period label of
\* the first successful outcome in input order, failed outcomes before it
\* being ignored: the digits following 'week' in any letter case, and 0 for
\* a label 'week' without digits.
C25_WeekNumberOfFirstSuccess ==
  aggPc = "returned" =>
    /\ Len(extractedData.weeks) = 1
    /\ extractedData.weeks[1].weekNumber = NumberOfLabel[results[FirstSuccess].file.week]

\* A failed outcome of week3 came before a successful one of WEEK12 and the
\* result has number 12.
C25_Witness ==
  /\ aggPc = "returned"
  /\ Len(results) = 2
  /\ ~results[1].success /\ results[1].file.week = "week3"
  /\ results[2].success /\ results[2].file.week = "WEEK12"
  /\ extractedData.weeks[1].weekNumber = 12

(***************************************************************************)
(* processResults called once on successful outcomes of canonical and      *)
(* unrecognized category labels, for the order of its daily buckets.       *)
(***************************************************************************)
MaxDayBatch == 3

DayOrderLabels == {"Saturday", "monday", "Tuesday", "sunday", "SUNDAY", "Holiday"}

DayOrderOutcomes ==
  {ProcessingResult(ScreenshotFile("a.png", "week3", d), <<RankingEntry(1, "A", 100)>>, TRUE) :
     d \in DayOrderLabels}

InitDayOrder ==
  /\ clock = 1
  /\ results \in UNION {[1..n -> DayOrderOutcomes] : n \in 0..MaxDayBatch}
  /\ aggPc = "called"
  /\ successfulResults = <<>>
  /\ foldIdx = 1
  /\ weekData = EmptyWeek
  /\ extractedData = NoData
  /\ aggError = ""
  /\ ExportIdle
  /\ CliIdle

SpecDayOrder == InitDayOrder /\ [][NextAgg]_vars

\* The bucket label each label of the inputs is passed on as.
BucketLabel ==
  [d \in DayOrderLabels |->
     CASE d = "monday" -> "Monday"
       [] d \in {"sunday", "SUNDAY"} -> "Sunday"
       [] OTHER -> d]

CanonicalDays == <<"Monday", "Tuesday", "Wednesday", "Thursday", "Friday", "Saturday">>

IsCanonicalDay(label) == \E k \in 1..Len(CanonicalDays) : CanonicalDays[k] = label

InputLabel(i) == BucketLabel[results[i].file.day]

\* The canonical labels of the input in the fixed order.
CanonicalPresent ==
  LET Present(label) == \E i \in 1..Len(results) : InputLabel(i) = label
  IN  SelectSeq(CanonicalDays, Present)

\* The unrecognized labels of the input, each once, in the order in which
\* they first occur.
UnrecognizedFirstSeen ==
  LET First(i) == /\ ~IsCanonicalDay(InputLabel(i))
                  /\ \A j \in 1..(i - 1) : InputLabel(j) # InputLabel(i)
      firsts == SelectSeq([i \in 1..Len(results) |-> i], First)
  IN  [k \in 1..Len(firsts) |-> InputLabel(firsts[k])]

\* C26: after processResults the daily buckets are ordered Monday ..
\* Saturday, every bucket of an unrecognized label comes after all canonical
\* buckets, and the unrecognized buckets keep the order in which their labels
\* were first encountered in the input.
C26_DailyBucketOrder ==
  aggPc = "returned" =>
    DailyLabels(extractedData.weeks[1]) = CanonicalPresent \o UnrecognizedFirstSeen

\* Two unrecognized labels, the later in the alphabet first, were followed
\* by a canonical one.
C26_Witness ==
  /\ aggPc = "returned"
  /\ Len(results) = 3
  /\ DailyLabels(extractedData.weeks[1]) = <<"Saturday", "Sunday", "Holiday">>
  /\ results[3].file.day = "Saturday"

(***************************************************************************)
(* Claims about the category label of a located file (SpecResolve).        *)
(***************************************************************************)
CanonicalLabelSet == {DayOfWeek[k] : k \in 1..Len(DayOfWeek)}

\* C27 as stated: every file returned by scanScreenshotDirectory carries as
\* its category label one of the seven canonical-cased labels, whatever the
\* letter case of the directory name on disk.
C27_CanonicalCategoryLabel ==
  ScanReturned =>
    \A i \in 1..Len(scanned.screenshots) : scanned.screenshots[i].day \in CanonicalLabelSet

\* C27: every file returned by scanScreenshotDirectory carries as its
\* category label the name, in its letter case on disk, of the category
\* directory that lists it; that name equals one of the seven canonical
\* labels up to letter case.
C27_CategoryLabelAsOnDisk ==
  ScanReturned =>
    \A i \in 1..Len(scanned.screenshots) :
      /\ \E k \in CategoryDirs(SelectedListing) :
           /\ SelectedListing[k].name = scanned.screenshots[i].day
           /\ \E j \in 1..Len(SelectedListing[k].entries) :
                SelectedListing[k].entries[j].name = scanned.screenshots[i].fileName
      /\ \E label \in CanonicalLabelSet :
           ToLowerCase(label) = ToLowerCase(scanned.screenshots[i].day)

\* A scan returned files of the directories 'SATURDAY' and 'WEEKLY' under
\* these names.
C27_Witness ==
  /\ ScanReturned
  /\ \E i \in 1..Len(scanned.screenshots) : scanned.screenshots[i].day = "SATURDAY"
  /\ \E i \in 1..Len(scanned.screenshots) : scanned.screenshots[i].day = "WEEKLY"

(***************************************************************************)
(* Claims about the buckets while processResults folds (SpecAgg).          *)
(***************************************************************************)
\* The number of successful outcomes folded into weekData so far.
Folded == IF aggPc = "folding" THEN foldIdx - 1 ELSE Len(successfulResults)

\* The folded outcomes whose label is L in some letter case.
FoldedOf(L) ==
  {i \in 1..Folded : ToLowerCase(successfulResults[i].file.day) = ToLowerCase(L)}

RECURSIVE FoldedWeeklyRecords(_)
FoldedWeeklyRecords(n) ==
  IF n = 0 THEN 0
  ELSE FoldedWeeklyRecords(n - 1)
         + (IF n \in FoldedOf("Weekly") THEN Len(successfulResults[n].extracted) ELSE 0)

Holds(entries, e) == \E k \in 1..Len(entries) : entries[k] = e

\* C28: after every step of the fold, dailyData holds at most one bucket per
\* label and no bucket labelled Weekly in any letter case; the outcomes
\* labelled Weekly in any letter case went to weeklyData only, and the
\* outcomes labelled by a day in any letter case went to the one bucket of
\* its canonical label only.
C28_BucketsWhileFolding ==
  aggPc \in {"folding", "returned"} =>
    LET daily == weekData.dailyData
    IN  /\ \A a, b \in 1..Len(daily) : a # b => daily[a].day # daily[b].day
        /\ \A b \in 1..Len(daily) :
             /\ ToLowerCase(daily[b].day) # "weekly"
             /\ IsCanonicalDay(daily[b].day)   \* every label of the inputs is a day
             /\ FoldedOf(daily[b].day) # {}
             /\ \A k \in 1..Len(daily[b].entries) :
                  \E i \in FoldedOf(daily[b].day) :
                    Holds(successfulResults[i].extracted, daily[b].entries[k])
        /\ \A i \in 1..Folded :
             IF i \in FoldedOf("Weekly")
             THEN \A k \in 1..Len(successfulResults[i].extracted) :
                    Holds(weekData.weeklyData, successfulResults[i].extracted[k])
             ELSE \E b \in 1..Len(daily) :
                    ToLowerCase(daily[b].day) = ToLowerCase(successfulResults[i].file.day)
        /\ Len(weekData.weeklyData) = FoldedWeeklyRecords(Folded)

\* In the middle of the fold: 'monday' and 'Monday' have been folded into
\* the one bucket Monday.
C28_Witness ==
  /\ aggPc = "folding"
  /\ foldIdx = 3
  /\ successfulResults[1].file.day = "monday"
  /\ successfulResults[2].file.day = "Monday"
  /\ DailyLabels(weekData) = <<"Monday">>

(***************************************************************************)
(* Claims about a scan that follows a successful validation (SpecResolve). *)
(***************************************************************************)
ValidatedThenScanned == resPc = "validated and scanned"

\* The images of the category directories of the selected week, each as the
\* pair of its directory's name and its own.
CategoryImages ==
  UNION {{<<SelectedListing[k].name, SelectedListing[k].entries[j].name>> :
            j \in {i \in 1..Len(SelectedListing[k].entries) :
                     isImageFile(SelectedListing[k].entries[i].name)}} :
           k \in CategoryDirs(SelectedListing)}

\* C29: on an unchanged tree, when validateDirectoryStructure has returned
\* valid = true, scanScreenshotDirectory on the same root does not throw and
\* returns a non-empty list that holds every image of every category
\* directory exactly once, so that the 'No screenshots found' exit cannot
\* follow a successful validation.
C29_ValidImpliesScanFinds ==
  ValidatedThenScanned =>
    /\ validated.valid
    /\ ~scanned.threw
    /\ Len(scanned.screenshots) > 0
    /\ \A image \in CategoryImages :
         Cardinality({i \in 1..Len(scanned.screenshots) :
                        /\ scanned.screenshots[i].day = image[1]
                        /\ scanned.screenshots[i].fileName = image[2]}) = 1
    /\ Len(scanned.screenshots) = Cardinality(CategoryImages)

\* A valid root with two category directories of three images in all has
\* been scanned.
C29_Witness ==
  /\ ValidatedThenScanned
  /\ Cardinality(CategoryDirs(SelectedListing)) = 2
  /\ Len(scanned.screenshots) = 3

(***************************************************************************)
(* Claims about buckets without records through the pipeline (SpecCli).    *)
(***************************************************************************)
\* The successful outcomes handed to processResults whose label is L in some
\* letter case.
SuccessesOf(L) ==
  {i \in 1..Len(results) :
     results[i].success /\ ToLowerCase(results[i].file.day) = ToLowerCase(L)}

\* The flat file written for the bucket L: its header and no data row.
HeaderOnlyFileFor(L) ==
  \E f \in 1..Len(files) :
    /\ files[f].format = "csv"
    /\ basename(files[f].path) = basenameExt(exportOptions.outputPath, ".csv") \o "_" \o L \o ".csv"
    /\ Len(files[f].tables) = 1
    /\ files[f].tables[1].header = <<"Rank", "Commander Name", "Points">>
    /\ files[f].tables[1].rows = <<>>

\* C30: processResults creates a daily bucket for every normalized
\* non-Weekly label among the successful outcomes, also when all outcomes of
\* the label carry no record; such a bucket is empty in the result,
\* validateWeekData reports 'No entries found' for it and the week is not
\* valid, and the flat-table export writes a header-only file for it and
\* does not raise the empty-data error.
C30_EmptyBucketThroughPipeline ==
  aggPc = "returned" =>
    LET daily == extractedData.weeks[1].dailyData
        Recordless(L) == \A i \in SuccessesOf(L) : results[i].extracted = <<>>
    IN  /\ \A i \in 1..Len(results) :
             (results[i].success /\ ToLowerCase(results[i].file.day) # "weekly") =>
               \E b \in 1..Len(daily) :
                 ToLowerCase(daily[b].day) = ToLowerCase(results[i].file.day)
        /\ \A b \in 1..Len(daily) :
             Recordless(daily[b].day) =>
               /\ daily[b].entries = <<>>
               /\ ~validateWeekData(extractedData.weeks[1]).valid
               /\ cliPc \in {"exporting", "exited"} =>
                    /\ Printed("Data validation issues found")
                    /\ Printed("  - No entries found for day: " \o daily[b].day)
               /\ (ExportFinished /\ options.format = "csv") =>
                    /\ expPc = "returned"
                    /\ HeaderOnlyFileFor(daily[b].day)

\* A run whose only successful outcome, of a Tuesday screenshot, carried no
\* record has exported the flat tables.
C30_Witness ==
  /\ cliPc = "exited"
  /\ options.format = "csv"
  /\ expPc = "returned"
  /\ Len(results) = 1
  /\ results[1].success /\ results[1].extracted = <<>>
  /\ results[1].file.day = "Tuesday"
  /\ HeaderOnlyFileFor("Tuesday")
  /\ Len(files) = 1

====
